---- MODULE Spec2Model ----
(***************************************************************************)
(* Model of the client-side video compositor, services/videoService.ts     *)
(* (generateVideo).  One run of generateVideo is a sequence of JavaScript  *)
(* tasks: the synchronous code between two awaits is one action.  The      *)
(* environment (image loads, audio decodes, the audio clock, display       *)
(* refresh callbacks, the timer and the recorder's events) is the rest of  *)
(* the actions.  Time is counted in ticks of TickMs milliseconds; every     *)
(* read of audioCtx.currentTime inside one task sees the same value.       *)
(***************************************************************************)
EXTENDS Integers, Sequences, FiniteSets

\* ------------------------------------------------------------- bounds
MaxSlides == 2
MaxDur == 2
MaxClock == 5
TickMs == 250
MaxChunks == 2
MaxDim == 29
MaxCalls == 2
MaxRuns == 2
MaxIds == 3
MaxJobs == 2

\* the slides of the script editor's runs
MaxDrafts == 1

\* the per-slide regenerations in flight at a time
MaxEdits == 1

\* --------------------------------------------------- program constants
\* setTimeout(r, 500), the trailing buffer
BUFFER_MS == 500
\* a slide's audioBlob that is null (types.ts: audioBlob: Blob | null)
NullBlob == 0
\* the frame: canvas.width, canvas.height
WIDTH == 1920
HEIGHT == 1080
\* a JavaScript number is an IEEE 754 binary64 value: 53 significant bits
Precision == 53
\* numbers are written as multiples of 2^-FracBits, in digits of DigitBits
\* binary digits each
FracBits == 64
DigitBits == 16

\* mutant of BufferTicks: a timer that fires before 500 ms are over
BufferTicksShort == (BUFFER_MS - 1) \div TickMs

\* the ticks after which a timer of BUFFER_MS has fired
BufferTicks == (BUFFER_MS + TickMs - 1) \div TickMs

MP4 == "video/mp4"
WEBM_H264 == "video/webm; codecs=h264"
WEBM_VP9 == "video/webm; codecs=vp9"

VARIABLES
    slides,       \* the argument: slides[k].audioBlob is NullBlob or the
                  \* length in ticks its audio decodes to
    caps,         \* what the runtime offers (the window / canvas objects)
    pc,           \* where the run is suspended
    i,            \* the loop index (1-based; the code's i is i - 1)
    mimeType,     \* the selected MIME type ("" before the selection)
    recorderMime, \* the mimeType option the recorder was constructed with
    audioCtx,     \* "none" | "suspended" | "running" | "closed"; closed
                  \* from the call of close(), whose promise is not awaited
    recorder,     \* "none" | "inactive" | "recording"
    recEvents,    \* events the recorder still has to fire after stop()
    videoTrack,   \* the canvas capture track: "none" | "live" | "ended"
    audioTrack,   \* the destination's audio track: "none" | "live" | "ended"
    canvas,       \* what the surface shows: its fill ("none" | "black")
                  \* and the slide whose image is drawn on it (0: none)
    clock,        \* audioCtx.currentTime, in ticks
    timer,        \* ticks left of the trailing setTimeout
    endTime,      \* the draw loop's endTime of the current slide
    chunks,       \* the chunks kept by ondataavailable
    result,       \* the returned promise: "pending" | "resolved" | "rejected"
    blob,         \* the blob the promise resolved with
    error,        \* the error the promise rejected with
    log,          \* history: what the run did, in order
    drawn,        \* history: slides whose image has been drawn
    lateCb,       \* history: callbacks of the current draw loop that saw
                  \* now >= endTime (counted to 2)
    recStart,     \* history: number of recorder.start() calls
    recStartAt,   \* history: the clock at recorder.start()
    loopEndAt,    \* history: the clock when the slide loop was left
    recStop,      \* history: number of recorder.stop() calls
    recStopAt,    \* history: the clock at recorder.stop()
    messages,     \* history: the messages passed to onProgress, in order
    delivered     \* history: every chunk the recorder delivered, in order

vars == <<slides, caps, pc, i, mimeType, recorderMime, audioCtx, recorder,
          recEvents, videoTrack, audioTrack, canvas, clock, timer, endTime,
          chunks, result, blob, error, log, drawn, lateCb, recStart,
          recStartAt, loopEndAt, recStop, recStopAt, messages, delivered>>
\* draw()'s locals, for the image fit taken by itself
VARIABLES
    img,          \* the loaded image: its width and height
    rect          \* the arguments of drawImage: x, y, drawW, drawH

fitVars == <<img, rect>>

\* services/geminiService.ts: calls of its exported functions, one at a time
VARIABLES
    apiKey,       \* import.meta.env.VITE_GEMINI_API_KEY
    calls,        \* number of calls made so far
    fn,           \* the function called
    nImages,      \* generateScripts: imageBlobs.length
    apiPc,        \* where the call is suspended
    client,       \* whether a new GoogleGenAI(...) has been constructed
    requests,     \* number of ai.models.generateContent calls issued
    outcome       \* the returned promise: pending, returned or rejected

apiVars == <<apiKey, calls, fn, nImages, apiPc, client, requests, outcome>>

\* App.tsx: the component's state and its handleGenerateVideo calls
VARIABLES
    status,       \* useState<AppStatus>
    appSlides,    \* useState<Slide[]>: here each slide's status
    videoUrl,     \* useState: 0 (null) or the call whose video is shown
    focus,        \* the element that has the keyboard focus
    handlers,     \* the calls of handleGenerateVideo: where each stands
    alerted       \* history: window.alert was shown

appVars == <<status, appSlides, videoUrl, focus, handlers, alerted>>

\* one invocation of generateVideo after another
VARIABLES
    run,          \* which invocation this is: 1 or 2
    sched,        \* the first invocation step by step: what the environment
                  \* did and what the run had come to after it
    first         \* in the second invocation: the slides the first was
                  \* given and how many of its steps have been repeated

twiceVars == <<run, sched, first>>

\* App.tsx: the slide editor's handlers that are awaiting something
VARIABLES
    jobs,         \* the handler calls in flight, in the order they started
    nextId,       \* generateId(): the number of ids handed out, plus one
    note          \* history: what the last step was, where a claim asks

editVars == <<jobs, nextId, note>>

\* the state outside one run of generateVideo
ext == <<fitVars, apiVars, appVars, twiceVars, editVars>>

all == <<vars, ext>>

\* ------------------------------------------------------------ inputs
\* a slide as the App hands it over: duration is what getAudioDuration gave
\* for the audio (App.tsx lines 125, 232, 262), 0 without audio (63, 199)
Slide == {[audioBlob |-> a, duration |-> a] : a \in {NullBlob} \cup (1..MaxDur)}

SlideLists == UNION {[1..n -> Slide] : n \in 0..MaxSlides}

\* The runtime: which primitives exist and what the recorder can encode.
\* Without MediaRecorder there is no probe and nothing can be encoded;
\* without the probe only WEBM_VP9 is ever asked of the recorder, so what
\* else it could encode is left out; without an AudioContext class there is
\* no suspended context.
Capabilities ==
    {c \in [ctx : BOOLEAN, audioContext : BOOLEAN, suspended : BOOLEAN,
            captureStream : BOOLEAN, mediaRecorder : BOOLEAN,
            isTypeSupported : BOOLEAN, mp4 : BOOLEAN, h264 : BOOLEAN,
            vp9 : BOOLEAN] :
        /\ (~c.mediaRecorder =>
               ~c.isTypeSupported /\ ~c.mp4 /\ ~c.h264 /\ ~c.vp9)
        /\ (~c.isTypeSupported => ~c.mp4 /\ ~c.h264)
        /\ (~c.audioContext => ~c.suspended)}

NoBlob == [present |-> FALSE, type |-> "", parts |-> <<>>]

Ev(kind, k, at) == [ev |-> kind, slide |-> k, at |-> at]

Min(a, b) == IF a <= b THEN a ELSE b

\* ------------------------------------------------- MIME type selection
\* what the recorder of this runtime can encode
Supports(c, type) ==
    IF type = MP4 THEN c.mp4 ELSE IF type = WEBM_H264 THEN c.h264 ELSE c.vp9

\* AnyMediaRecorder?.isTypeSupported?.(type): undefined (falsy) when
\* MediaRecorder or its isTypeSupported is missing
IsTypeSupported(c, type) ==
    c.mediaRecorder /\ c.isTypeSupported /\ Supports(c, type)

\* mutant of SelectMimeType: the two probes in the other order
SelectMimeTypeH264First(c) ==
    IF IsTypeSupported(c, WEBM_H264) THEN WEBM_H264
    ELSE IF IsTypeSupported(c, MP4) THEN MP4
    ELSE WEBM_VP9

\* lines 22-28
SelectMimeType(c) ==
    IF IsTypeSupported(c, MP4) THEN MP4
    ELSE IF IsTypeSupported(c, WEBM_H264) THEN WEBM_H264
    ELSE WEBM_VP9

\* new AnyMediaRecorder(combinedStream, {mimeType, ...}) throws when the
\* constructor is missing (TypeError) or refuses the type (NotSupportedError)
RecorderAccepts(c, type) == c.mediaRecorder /\ Supports(c, type)

\* mutant of CtxAcquired: the null check of the context is missing
CtxUnchecked == TRUE

\* if (!ctx) throw new Error('No canvas context')
CtxAcquired == caps.ctx

\* ------------------------------------------------------ the slide loop
\* mutant of DecodedDuration: the slide's stored duration is used
StoredDuration(slide) == slide.duration

\* (await decodeAudio(slide.audioBlob)).duration: the model's audioBlob is
\* the length its audio decodes to
DecodedDuration(slide) == slide.audioBlob

\* mutant of SkipsSlide: the null check is missing
SkipsNever(k) == FALSE

\* if (!slide.audioBlob) continue
SkipsSlide(k) == slides[k].audioBlob = NullBlob

\* the first slide at or after k that is not skipped (Len(slides) + 1 when
\* the loop runs off the end): where the loop reaches its next await
\* mutant of FirstAwait: the loop ends one slide early
RECURSIVE FirstAwaitShort(_)
FirstAwaitShort(k) ==
    IF k >= Len(slides) THEN Len(slides) + 1
    ELSE IF SkipsSlide(k) THEN FirstAwaitShort(k + 1)
    ELSE k

RECURSIVE FirstAwait(_)
FirstAwait(k) ==
    IF k > Len(slides) THEN k
    ELSE IF SkipsSlide(k) THEN FirstAwait(k + 1)
    ELSE k

\* mutant of AfterSlide: the index is not advanced
AfterSlideSame(k) == k

\* i++ once a slide's draw loop has resolved
AfterSlide(k) == k + 1

\* mutant of DrawDone: the loop compares with a time that never comes
DrawDoneNever(now, end) == now >= end + MaxClock + 1

\* mutant of DrawDone: the loop is left one tick before endTime
DrawDoneEarly(now, end) == now >= end - 1

\* mutant of DrawDone: a strict comparison
DrawDoneStrict(now, end) == now > end

\* if (now >= endTime) { resolve(); return; }
DrawDone(now, end) == now >= end

\* mutant of ProgressMsg: the zero-based index is reported
ProgressMsgZeroBased(k) == [n |-> k - 1, total |-> Len(slides)]

\* onProgress(`動画生成中... ${i + 1}/${slides.length}`): the two numbers of
\* the message for the slide at (1-based) index k, which is the code's i + 1
ProgressMsg(k) == [n |-> k, total |-> Len(slides)]

\* The loop from index `from` up to its next await, appended to history lg:
\* onProgress for every index passed, then either the image load of the
\* first slide with audio or, past the last slide, the trailing setTimeout.
ContinueLoop(from, lg) ==
    LET j == FirstAwait(from)
        last == Min(j, Len(slides))
        progress == [n \in 1..(last - from + 1) |->
                        Ev("progress", from + n - 1, clock)]
    IN  /\ i' = j
        /\ messages' = messages \o [n \in 1..(last - from + 1) |->
                                       ProgressMsg(from + n - 1)]
        /\ IF j <= Len(slides)
           THEN /\ pc' = "loadImage"
                /\ log' = lg \o progress \o <<Ev("load", j, clock)>>
                /\ timer' = 0
                /\ loopEndAt' = loopEndAt
           ELSE /\ pc' = "buffer"
                /\ log' = lg \o progress
                /\ timer' = BufferTicks
                /\ loopEndAt' = clock

\* an exception leaving the async function: the promise rejects; there is
\* no try/finally, so nothing else happens
Throw(err) ==
    /\ pc' = "done"
    /\ result' = "rejected"
    /\ error' = err

\* mutant of Abort: the failure is caught and the loop goes on with the next
\* slide
AbortSwallowed(err, lg) ==
    /\ ContinueLoop(i + 1, lg)
    /\ UNCHANGED <<result, error>>

\* a rejected await inside the loop (loadImage, decodeAudio): the rejection
\* is not caught, so the loop is left; lg is the history with the failure
Abort(err, lg) ==
    /\ Throw(err)
    /\ log' = lg
    /\ UNCHANGED <<i, timer, loopEndAt, messages>>

\* lines 38-88: streams, recorder, recorder.start(), the black frame and the
\* loop up to its first await; mt is the selected MIME type
SetupRest(mt) ==
    IF ~caps.captureStream
    THEN /\ Throw("captureStream is not a function")
         /\ audioTrack' = "live"
         /\ UNCHANGED <<videoTrack, recorder, recorderMime, recStart,
                        recStartAt, canvas, i, log, timer, loopEndAt,
                        messages>>
    ELSE IF ~RecorderAccepts(caps, mt)
    THEN /\ Throw("MediaRecorder cannot be constructed")
         /\ audioTrack' = "live"
         /\ videoTrack' = "live"
         /\ UNCHANGED <<recorder, recorderMime, recStart, recStartAt,
                        canvas, i, log, timer, loopEndAt,
                        messages>>
    ELSE /\ audioTrack' = "live"
         /\ videoTrack' = "live"
         /\ recorder' = "recording"
         /\ recorderMime' = mt
         /\ recStart' = recStart + 1
         /\ recStartAt' = clock
         /\ canvas' = [fill |-> "black", image |-> 0]
         /\ result' = result
         /\ error' = error
         /\ ContinueLoop(1, log)

\* one call of draw() for the current slide: resolve when the audio clock has
\* reached end, else clear to black, draw the image, request the next frame
DrawCallback(end, lg, late) ==
    /\ lateCb' = IF clock >= end THEN Min(late + 1, 2) ELSE late
    /\ IF DrawDone(clock, end)
       THEN /\ ContinueLoop(AfterSlide(i), lg \o <<Ev("end", i, clock)>>)
            /\ UNCHANGED <<canvas, drawn>>
       ELSE /\ canvas' = [fill |-> "black", image |-> i]
            /\ drawn' = drawn \cup {i}
            /\ pc' = "drawing"
            /\ log' = lg
            /\ UNCHANGED <<i, timer, loopEndAt, messages>>

\* mutant of Cleanup: the audio context is not closed
CleanupNoClose ==
    /\ audioCtx' = audioCtx
    /\ audioTrack' = "ended"
    /\ videoTrack' = "ended"

\* mutant of KeepsChunk: empty chunks are kept too
KeepsAnyChunk(data) == data.size >= 0

\* if (e.data && e.data.size > 0) chunks.push(e.data)
KeepsChunk(data) == data.size > 0

\* combinedStream holds the canvas video track and the destination's audio
\* track; canvasStream holds the canvas video track
Cleanup ==
    /\ audioCtx' = "closed"
    /\ audioTrack' = "ended"
    /\ videoTrack' = "ended"

\* ------------------------------------------------- number arithmetic
\* A non-negative number is the sequence of the digits in base Base, lowest
\* first and without leading zeros, of its multiple of 2^FracBits.  An
\* operation of the code gives the exact result rounded to Precision
\* significant binary digits, to nearest, ties to even.
Base == 2 ^ DigitBits

RECURSIVE Digits(_)
Digits(n) == IF n = 0 THEN <<>> ELSE <<n % Base>> \o Digits(n \div Base)

\* the number of binary digits of the integer n
BitLength(n) == CHOOSE k \in 0..31 : n < 2 ^ k /\ (k = 0 \/ 2 ^ (k - 1) <= n)

\* the number of binary digits of b
Bits(b) ==
    IF b = <<>> THEN 0 ELSE DigitBits * (Len(b) - 1) + BitLength(b[Len(b)])

Zeros(n) == [k \in 1..n |-> 0]

RECURSIVE Trim(_)
Trim(b) ==
    IF b = <<>> \/ b[Len(b)] # 0 THEN b
    ELSE Trim(SubSeq(b, 1, Len(b) - 1))

Less(a, b) ==
    \/ Len(a) < Len(b)
    \/ /\ Len(a) = Len(b)
       /\ \E k \in 1..Len(a) :
             /\ a[k] < b[k]
             /\ \A j \in (k + 1)..Len(a) : a[j] = b[j]

LessEq(a, b) == a = b \/ Less(a, b)

\* the lowest digit of a (0 when there is none) and the digits above it
Low(a) == IF a = <<>> THEN 0 ELSE Head(a)
High(a) == IF a = <<>> THEN a ELSE Tail(a)

\* a + b + c, exactly
RECURSIVE AddDigits(_, _, _)
AddDigits(a, b, c) ==
    IF a = <<>> /\ b = <<>> THEN Digits(c)
    ELSE <<(Low(a) + Low(b) + c) % Base>>
         \o AddDigits(High(a), High(b), (Low(a) + Low(b) + c) \div Base)

RECURSIVE SubRaw(_, _, _)
SubRaw(a, b, c) ==
    IF a = <<>> THEN <<>>
    ELSE <<(Low(a) - Low(b) - c + Base) % Base>>
         \o SubRaw(High(a), High(b), IF Low(a) - Low(b) - c < 0 THEN 1 ELSE 0)

\* a - b, exactly, for a >= b
SubDigits(a, b) == Trim(SubRaw(a, b, 0))

\* |a - b|, exactly
Dist(a, b) == IF LessEq(a, b) THEN SubDigits(b, a) ELSE SubDigits(a, b)

\* b * d + c, exactly, for an integer d > 0
RECURSIVE MulDigits(_, _, _)
MulDigits(b, d, c) ==
    IF b = <<>> THEN Digits(c)
    ELSE <<(d * Head(b) + c) % Base>>
         \o MulDigits(Tail(b), d, (d * Head(b) + c) \div Base)

\* b * 2^n
Shl(b, n) ==
    IF b = <<>> THEN <<>>
    ELSE Zeros(n \div DigitBits) \o MulDigits(b, 2 ^ (n % DigitBits), 0)

\* the integer n as a number
Fixed(n) == Shl(Digits(n), FracBits)

\* long division of the digits b[1..k] by the integer d, r being what the
\* digits above k have left and q the digits of the quotient above k
RECURSIVE DivStep(_, _, _, _, _)
DivStep(b, d, k, r, q) ==
    IF k = 0 THEN [q |-> q, r |-> r]
    ELSE DivStep(b, d, k - 1, (Base * r + b[k]) % d,
                 <<(Base * r + b[k]) \div d>> \o q)

\* the quotient (rounded down) and the remainder of b by the integer d
DivDigits(b, d) ==
    [q |-> Trim(DivStep(b, d, Len(b), 0, <<>>).q),
     r |-> DivStep(b, d, Len(b), 0, <<>>).r]

\* binary digit n (the lowest is digit 1) of b
Bit(b, n) == (b[((n - 1) \div DigitBits) + 1] \div 2 ^ ((n - 1) % DigitBits)) % 2

\* b without its lowest n binary digits, and whether those are all 0
Cut(b, n) ==
    [k \in 1..Len(b) |->
        IF k <= n \div DigitBits THEN 0
        ELSE IF k = (n \div DigitBits) + 1
        THEN b[k] - (b[k] % 2 ^ (n % DigitBits))
        ELSE b[k]]

\* b, or b and a non-zero part below its last digit (sticky), rounded to
\* Precision significant binary digits
Round(b, sticky) ==
    IF Bits(b) <= Precision THEN b
    ELSE LET drop == Bits(b) - Precision
             guard == Bit(b, drop)
             st == sticky \/ Cut(b, drop - 1) # b
             up == guard = 1 /\ (st \/ Bit(b, drop + 1) = 1)
         IN  IF up THEN AddDigits(Cut(b, drop), Shl(<<1>>, drop), 0)
             ELSE Cut(b, drop)

\* n / d in the code, for integers n, d > 0
FDiv(n, d) ==
    LET qr == DivDigits(Fixed(n), d)
    IN  Round(qr.q, qr.r # 0)

\* d * a in the code, for an integer d > 0
FMul(d, a) == Round(MulDigits(a, d, 0), FALSE)

\* a - b in the code: a sign and a magnitude
FSub(a, b) ==
    IF LessEq(b, a) THEN [neg |-> FALSE, mag |-> Round(SubDigits(a, b), FALSE)]
    ELSE [neg |-> TRUE, mag |-> Round(SubDigits(b, a), FALSE)]

\* s / 2 in the code (exact: s is a multiple of 2^(1 - FracBits))
Half(s) == [neg |-> s.neg, mag |-> DivDigits(s.mag, 2).q]

\* Math.min(a, b)
MathMin(a, b) == IF LessEq(a, b) THEN a ELSE b

\* ------------------------------------------------------ the image fit
\* mutant of Scale: the larger factor, which covers the frame
ScaleCover(w, h) ==
    IF LessEq(FDiv(WIDTH, w), FDiv(HEIGHT, h)) THEN FDiv(HEIGHT, h)
    ELSE FDiv(WIDTH, w)

\* Math.min(WIDTH / img.width, HEIGHT / img.height)
Scale(w, h) == MathMin(FDiv(WIDTH, w), FDiv(HEIGHT, h))

\* lines 115-119: the rectangle the image of w x h is drawn into
Fit(w, h) ==
    LET scale == Scale(w, h)
        drawW == FMul(w, scale)
        drawH == FMul(h, scale)
    IN  [x |-> Half(FSub(Fixed(WIDTH), drawW)),
         y |-> Half(FSub(Fixed(HEIGHT), drawH)),
         drawW |-> drawW,
         drawH |-> drawH]

NoImage == [width |-> 0, height |-> 0]
NoRect == [x |-> [neg |-> FALSE, mag |-> <<>>],
           y |-> [neg |-> FALSE, mag |-> <<>>],
           drawW |-> <<>>, drawH |-> <<>>]

\* image sizes: small ones of every ratio, and the frame's own
Dims == (1..MaxDim) \cup {HEIGHT, WIDTH}

FitIdle == img = NoImage /\ rect = NoRect

\* the values of process.env / import.meta.env: unset, or set to a string
Unset == [set |-> FALSE, value |-> ""]

Pending == [kind |-> "pending", value |-> <<>>, error |-> ""]

ApiIdle ==
    /\ apiKey = Unset
    /\ calls = 0
    /\ fn = ""
    /\ nImages = 0
    /\ apiPc = "idle"
    /\ client = FALSE
    /\ requests = 0
    /\ outcome = Pending

AppIdle ==
    /\ status = "IDLE"
    /\ appSlides = <<>>
    /\ videoUrl = 0
    /\ focus = "none"
    /\ handlers = <<>>
    /\ alerted = FALSE

NoFirst == [slides |-> <<>>, at |-> 0]

TwiceIdle ==
    /\ run = 1
    /\ sched = <<>>
    /\ first = NoFirst

\* the last step as the history keeps it: the operation, its arguments and
\* the slide list it found
Note(op, id, direction, before) ==
    [op |-> op, id |-> id, direction |-> direction, before |-> before]

NoNote == Note("", 0, "", <<>>)

EditIdle ==
    /\ jobs = <<>>
    /\ nextId = 1
    /\ note = NoNote

ExtIdle == FitIdle /\ ApiIdle /\ AppIdle /\ TwiceIdle /\ EditIdle

\* ------------------------------------------------------------- actions
Init ==
    /\ slides \in SlideLists
    /\ caps \in Capabilities
    /\ pc = "idle"
    /\ i = 0
    /\ mimeType = ""
    /\ recorderMime = ""
    /\ audioCtx = "none"
    /\ recorder = "none"
    /\ recEvents = <<>>
    /\ videoTrack = "none"
    /\ audioTrack = "none"
    /\ canvas = [fill |-> "none", image |-> 0]
    /\ clock = 0
    /\ timer = 0
    /\ endTime = 0
    /\ chunks = <<>>
    /\ result = "pending"
    /\ blob = NoBlob
    /\ error = ""
    /\ log = <<>>
    /\ drawn = {}
    /\ lateCb = 0
    /\ recStart = 0
    /\ recStartAt = 0
    /\ loopEndAt = 0
    /\ recStop = 0
    /\ recStopAt = 0
    /\ messages = <<>>
    /\ delivered = <<>>
    /\ ExtIdle

\* generateVideo(slides, onProgress) up to its first await (lines 9-35, and
\* on through line 88 when the audio context is not suspended)
Call ==
    /\ pc = "idle"
    /\ IF ~CtxAcquired
       THEN /\ Throw("No canvas context")
            /\ UNCHANGED <<mimeType, audioCtx, audioTrack, videoTrack,
                           recorder, recorderMime, recStart, recStartAt,
                           canvas, i, log, timer, loopEndAt,
                           messages>>
       ELSE /\ mimeType' = SelectMimeType(caps)
            /\ IF ~caps.audioContext
               THEN /\ Throw("AudioContextClass is not a constructor")
                    /\ UNCHANGED <<audioCtx, audioTrack, videoTrack, recorder,
                                   recorderMime, recStart, recStartAt, canvas,
                                   i, log, timer, loopEndAt,
                                   messages>>
               ELSE IF caps.suspended
               THEN /\ audioCtx' = "suspended"
                    /\ pc' = "resume"
                    /\ UNCHANGED <<result, error, audioTrack, videoTrack,
                                   recorder, recorderMime, recStart,
                                   recStartAt, canvas, i, log, timer,
                                   loopEndAt,
                                   messages>>
               ELSE /\ audioCtx' = "running"
                    /\ SetupRest(SelectMimeType(caps))
    /\ UNCHANGED <<slides, caps, recEvents, clock, endTime, chunks, blob,
                   drawn, lateCb,
                   recStop, recStopAt, delivered>>

\* await audioCtx.resume() resolved: lines 38-88
Resumed ==
    /\ pc = "resume"
    /\ audioCtx' = "running"
    /\ SetupRest(mimeType)
    /\ UNCHANGED <<slides, caps, mimeType, recEvents, clock, endTime, chunks,
                   blob, drawn, lateCb,
                   recStop, recStopAt, delivered>>

\* img.onload: loadImage resolves, decodeAudio(slide.audioBlob) is awaited
ImageLoaded ==
    /\ pc = "loadImage"
    /\ pc' = "decode"
    /\ UNCHANGED <<slides, caps, i, mimeType, recorderMime, audioCtx,
                   recorder, recEvents, videoTrack, audioTrack, canvas, clock,
                   timer, endTime, chunks, result, blob, error, log, drawn,
                   lateCb, recStart, recStartAt, loopEndAt,
                   messages, recStop, recStopAt, delivered>>

\* img.onerror = reject
ImageError ==
    /\ pc = "loadImage"
    /\ Abort("image error event", log \o <<Ev("error", i, clock)>>)
    /\ UNCHANGED <<slides, caps, mimeType, recorderMime, audioCtx, recorder,
                   recEvents, videoTrack, audioTrack, canvas, clock, endTime,
                   chunks, blob, drawn, lateCb, recStart, recStartAt,
                   recStop, recStopAt, delivered>>

\* blob.arrayBuffer() or audioCtx.decodeAudioData() rejects
DecodeError ==
    /\ pc = "decode"
    /\ Abort("audio decode error", log \o <<Ev("error", i, clock)>>)
    /\ UNCHANGED <<slides, caps, mimeType, recorderMime, audioCtx, recorder,
                   recEvents, videoTrack, audioTrack, canvas, clock, endTime,
                   chunks, blob, drawn, lateCb, recStart, recStartAt,
                   recStop, recStopAt, delivered>>

\* decodeAudio resolved (lines 90-126): the source is started at the current
\* audio time, startTime and endTime are taken and draw() is called once
AudioDecoded ==
    /\ pc = "decode"
    /\ LET duration == DecodedDuration(slides[i])
           startTime == clock
       IN  /\ endTime' = startTime + duration
           /\ DrawCallback(startTime + duration,
                           log \o <<Ev("start", i, clock)>>, 0)
    /\ UNCHANGED <<slides, caps, mimeType, recorderMime, audioCtx, recorder,
                   recEvents, videoTrack, audioTrack, clock, chunks, result,
                   blob, error, recStart, recStartAt,
                   recStop, recStopAt, delivered>>

\* a requestAnimationFrame callback: draw() again
Frame ==
    /\ pc = "drawing"
    /\ DrawCallback(endTime, log, lateCb)
    /\ UNCHANGED <<slides, caps, mimeType, recorderMime, audioCtx, recorder,
                   recEvents, videoTrack, audioTrack, clock, endTime, chunks,
                   result, blob, error, recStart, recStartAt,
                   recStop, recStopAt, delivered>>

\* time passes, by one tick: the audio clock of the running context advances
\* and a pending timer runs down (the timer is only ever set while the
\* context runs, so the audio clock measures the time the timer waits)
Tick ==
    /\ audioCtx = "running"
    /\ clock < MaxClock
    /\ clock' = clock + 1
    /\ timer' = IF timer > 0 THEN timer - 1 ELSE 0
    /\ UNCHANGED <<slides, caps, pc, i, mimeType, recorderMime, audioCtx,
                   recorder, recEvents, videoTrack, audioTrack, canvas,
                   endTime, chunks, result, blob, error, log, drawn, lateCb,
                   recStart, recStartAt, loopEndAt,
                   messages, recStop, recStopAt, delivered>>

\* the 500 ms timer fires (lines 131-145): onstop is set, recorder.stop();
\* the recorder then delivers what it holds in one or more dataavailable
\* events, and its stop event after them
TimerFired ==
    /\ pc = "buffer"
    /\ timer = 0
    /\ pc' = "stopping"
    /\ recorder' = "inactive"
    /\ recStop' = recStop + 1
    /\ recStopAt' = clock
    /\ \E n \in 1..MaxChunks :
          recEvents' = [k \in 1..n |-> "dataavailable"] \o <<"stop">>
    /\ UNCHANGED <<slides, caps, i, mimeType, recorderMime, audioCtx,
                   videoTrack, audioTrack, canvas, clock, timer, endTime,
                   chunks, result, blob, error, log, drawn, lateCb, recStart,
                   recStartAt, loopEndAt,
                   messages, delivered>>

\* recorder.ondataavailable (lines 53-57)
DataAvailable ==
    /\ recEvents # <<>>
    /\ Head(recEvents) = "dataavailable"
    /\ recEvents' = Tail(recEvents)
    /\ \E size \in 0..1 :
          LET data == [id |-> Len(delivered) + 1, size |-> size]
          IN  /\ delivered' = Append(delivered, data)
              /\ chunks' = IF KeepsChunk(data) THEN Append(chunks, data)
                            ELSE chunks
    /\ UNCHANGED <<slides, caps, pc, i, mimeType, recorderMime, audioCtx,
                   recorder, videoTrack, audioTrack, canvas, clock, timer,
                   endTime, result, blob, error, log, drawn, lateCb, recStart,
                   recStartAt, loopEndAt,
                   messages, recStop, recStopAt>>

\* recorder.onstop (lines 135-144)
RecorderStopped ==
    /\ recEvents # <<>>
    /\ Head(recEvents) = "stop"
    /\ recEvents' = Tail(recEvents)
    /\ blob' = [present |-> TRUE, type |-> mimeType, parts |-> chunks]
    /\ Cleanup
    /\ result' = "resolved"
    /\ pc' = "done"
    /\ UNCHANGED <<slides, caps, i, mimeType, recorderMime, recorder, canvas,
                   clock, timer, endTime, chunks, error, log, drawn, lateCb,
                   recStart, recStartAt, loopEndAt,
                   messages, recStop, recStopAt, delivered>>

Next ==
    \/ Call /\ UNCHANGED ext
    \/ Resumed /\ UNCHANGED ext
    \/ ImageLoaded /\ UNCHANGED ext
    \/ ImageError /\ UNCHANGED ext
    \/ DecodeError /\ UNCHANGED ext
    \/ AudioDecoded /\ UNCHANGED ext
    \/ Frame /\ UNCHANGED ext
    \/ Tick /\ UNCHANGED ext
    \/ TimerFired /\ UNCHANGED ext
    \/ DataAvailable /\ UNCHANGED ext
    \/ RecorderStopped /\ UNCHANGED ext

Spec == Init /\ [][Next]_all

\* the run under the environment's guarantees: the call is made, resume(),
\* image loads and audio decodes settle, the audio clock of a running context
\* advances, refresh callbacks and the timer fire, and the recorder delivers
\* its data and stop events
FairSpec ==
    /\ Spec
    /\ WF_all(Call /\ UNCHANGED ext)
    /\ WF_all(Resumed /\ UNCHANGED ext)
    /\ WF_all(ImageLoaded /\ UNCHANGED ext)
    /\ WF_all(AudioDecoded /\ UNCHANGED ext)
    /\ WF_all(Frame /\ UNCHANGED ext)
    /\ WF_all(Tick /\ UNCHANGED ext)
    /\ WF_all(TimerFired /\ UNCHANGED ext)
    /\ WF_all(DataAvailable /\ UNCHANGED ext)
    /\ WF_all(RecorderStopped /\ UNCHANGED ext)

\* ------------------------------------------- the image fit by itself
\* no run of generateVideo: its state as before the call, with no slides
RunIdle ==
    /\ slides = <<>>
    /\ caps = [ctx |-> TRUE, audioContext |-> TRUE, suspended |-> FALSE,
               captureStream |-> TRUE, mediaRecorder |-> TRUE,
               isTypeSupported |-> TRUE, mp4 |-> TRUE, h264 |-> TRUE,
               vp9 |-> TRUE]
    /\ pc = "idle"
    /\ i = 0
    /\ mimeType = ""
    /\ recorderMime = ""
    /\ audioCtx = "none"
    /\ recorder = "none"
    /\ recEvents = <<>>
    /\ videoTrack = "none"
    /\ audioTrack = "none"
    /\ canvas = [fill |-> "none", image |-> 0]
    /\ clock = 0
    /\ timer = 0
    /\ endTime = 0
    /\ chunks = <<>>
    /\ result = "pending"
    /\ blob = NoBlob
    /\ error = ""
    /\ log = <<>>
    /\ drawn = {}
    /\ lateCb = 0
    /\ recStart = 0
    /\ recStartAt = 0
    /\ loopEndAt = 0
    /\ recStop = 0
    /\ recStopAt = 0
    /\ messages = <<>>
    /\ delivered = <<>>

\* an image of any size has been loaded
FitInit ==
    /\ RunIdle
    /\ ApiIdle
    /\ AppIdle
    /\ TwiceIdle
    /\ EditIdle
    /\ img \in [width : Dims, height : Dims]
    /\ rect = NoRect

\* draw() computes the rectangle and passes it to drawImage (lines 115-121)
Draw ==
    /\ rect = NoRect
    /\ rect' = Fit(img.width, img.height)
    /\ UNCHANGED <<img, vars>>

FitNext == Draw /\ UNCHANGED <<apiVars, appVars, twiceVars, editVars>>

SpecFit == FitInit /\ [][FitNext]_all

\* -------------------------------------- services/geminiService.ts
\* the message of the error getApiKey throws (line 10: "Gemini API key is
\* not set; set VITE_GEMINI_API_KEY in .env.local and try again")
API_KEY_ERROR == "VITE_GEMINI_API_KEY is not set"

Env == {Unset, [set |-> TRUE, value |-> ""], [set |-> TRUE, value |-> "key"]}

Fns == {"generateScripts", "generateSingleScript", "generateSpeech",
        "generateVideoMetadata"}

\* mutant of KeyMissing: the key is not looked at
KeyMissingNever(k) == FALSE

\* if (!apiKey): undefined and the empty string are falsy
KeyMissing(k) == ~k.set \/ k.value = ""

Returned(v) == [kind |-> "returned", value |-> v, error |-> ""]
Rejected(e) == [kind |-> "rejected", value |-> <<>>, error |-> e]

\* mutant of Max: the parsed array is returned as long as it came
MaxFirst(a, b) == a

Max(a, b) == IF a >= b THEN a ELSE b

\* what the service can answer a request of function f with: ok is
\* whether the text parses as JSON (generateSpeech: whether audio data is
\* there), len the length of the array or text
Responses(f) ==
    IF f = "generateScripts"
    THEN {[ok |-> FALSE, len |-> 0]}
         \cup {[ok |-> TRUE, len |-> m] : m \in 0..(MaxSlides + 1)}
    ELSE IF f = "generateSingleScript"
    THEN {[ok |-> TRUE, len |-> m] : m \in 0..1}
    ELSE {[ok |-> b, len |-> 0] : b \in BOOLEAN}

\* what function f makes of the answer (lines 98-112, 138, 160-166, 199-211)
Reply(f, n, resp) ==
    IF f = "generateScripts"
    THEN IF resp.ok
         THEN Returned([k \in 1..Max(resp.len, n) |->
                           IF k <= resp.len THEN "script" ELSE "mismatch"])
         ELSE Returned([k \in 1..n |-> "fallback"])
    ELSE IF f = "generateSingleScript"
    THEN Returned(<<IF resp.len > 0 THEN "script" ELSE "">>)
    ELSE IF f = "generateSpeech"
    THEN IF resp.ok THEN Returned(<<"wav">>)
         ELSE Rejected("No audio data returned")
    ELSE Returned(<<IF resp.ok THEN "metadata" ELSE "fallback">>)

\* imageBlobs.length for generateScripts, the one imageBlob of
\* generateSingleScript
Images(f) ==
    IF f = "generateScripts" THEN 0..MaxSlides
    ELSE IF f = "generateSingleScript" THEN {1} ELSE {0}

ApiInit ==
    /\ RunIdle
    /\ FitIdle
    /\ AppIdle
    /\ TwiceIdle
    /\ EditIdle
    /\ apiKey \in Env
    /\ calls = 1
    /\ fn \in Fns
    /\ nImages \in Images(fn)
    /\ apiPc = "idle"
    /\ client = FALSE
    /\ requests = 0
    /\ outcome = Pending

\* the call up to its first await: new GoogleGenAI({ apiKey: getApiKey() }),
\* then resizeImageForAI (generateScripts, generateSingleScript) or
\* ai.models.generateContent (generateSpeech, generateVideoMetadata)
ApiCall ==
    /\ apiPc = "idle"
    /\ IF KeyMissing(apiKey)
       THEN /\ outcome' = Rejected(API_KEY_ERROR)
            /\ apiPc' = "done"
            /\ UNCHANGED <<client, requests>>
       ELSE /\ client' = TRUE
            /\ outcome' = outcome
            /\ IF fn \in {"generateScripts", "generateSingleScript"}
               THEN apiPc' = "resize" /\ requests' = requests
               ELSE apiPc' = "request" /\ requests' = requests + 1
    /\ UNCHANGED <<apiKey, calls, fn, nImages>>

\* the images are resized: the request is issued
Resized ==
    /\ apiPc = "resize"
    /\ apiPc' = "request"
    /\ requests' = requests + 1
    /\ UNCHANGED <<apiKey, calls, fn, nImages, client, outcome>>

\* resizeImageForAI rejects (img.onerror, no canvas context)
ResizeFailed ==
    /\ apiPc = "resize"
    /\ nImages > 0
    /\ apiPc' = "done"
    /\ outcome' = Rejected("resize failed")
    /\ UNCHANGED <<apiKey, calls, fn, nImages, client, requests>>

\* generateContent resolves
Responded ==
    /\ apiPc = "request"
    /\ apiPc' = "done"
    /\ \E resp \in Responses(fn) : outcome' = Reply(fn, nImages, resp)
    /\ UNCHANGED <<apiKey, calls, fn, nImages, client, requests>>

\* generateContent rejects
RequestFailed ==
    /\ apiPc = "request"
    /\ apiPc' = "done"
    /\ outcome' = Rejected("request failed")
    /\ UNCHANGED <<apiKey, calls, fn, nImages, client, requests>>

\* the caller has its answer and calls a function again; the environment
\* variable is fixed at build time
ApiAgain ==
    /\ apiPc = "done"
    /\ calls < MaxCalls
    /\ calls' = calls + 1
    /\ fn' \in Fns
    /\ nImages' \in Images(fn')
    /\ apiPc' = "idle"
    /\ outcome' = Pending
    /\ UNCHANGED <<apiKey, client, requests>>

ApiNext ==
    \/ ApiCall /\ UNCHANGED <<vars, fitVars, appVars, twiceVars, editVars>>
    \/ Resized /\ UNCHANGED <<vars, fitVars, appVars, twiceVars, editVars>>
    \/ ResizeFailed /\ UNCHANGED <<vars, fitVars, appVars, twiceVars, editVars>>
    \/ Responded /\ UNCHANGED <<vars, fitVars, appVars, twiceVars, editVars>>
    \/ RequestFailed /\ UNCHANGED <<vars, fitVars, appVars, twiceVars, editVars>>
    \/ ApiAgain /\ UNCHANGED <<vars, fitVars, appVars, twiceVars, editVars>>

SpecApi == ApiInit /\ [][ApiNext]_all

\* --------------------------------------------------------------- App.tsx
SlideStatus == {"pending", "ready", "error"}

\* the slide lists the editor can hold, by the slides' status
AppSlideLists ==
    UNION {[1..n -> [status : SlideStatus]] : n \in 0..MaxSlides}

\* the busy overlay (line 414): a fixed full-screen div above the page
BusyOverlay == status \notin {"IDLE", "COMPLETED", "ERROR"}

\* the error overlay (line 424)
ErrorOverlay == status = "ERROR"

\* the section with the generate button is rendered (line 473); the button
\* has no disabled attribute (line 476)
GenerateButton == Len(appSlides) > 0

\* the calls of handleGenerateVideo that are awaiting generateVideo
InFlight == {h \in DOMAIN handlers : handlers[h] = "video"}

AppInit ==
    /\ RunIdle
    /\ FitIdle
    /\ ApiIdle
    /\ TwiceIdle
    /\ EditIdle
    /\ status = "IDLE"
    /\ appSlides \in AppSlideLists
    /\ videoUrl = 0
    /\ focus = "none"
    /\ handlers = <<>>
    /\ alerted = FALSE

\* handleGenerateVideo up to its first await (lines 285-293)
HandleGenerateVideo ==
    /\ Len(handlers) < MaxRuns
    /\ IF \E k \in DOMAIN appSlides : appSlides[k].status # "ready"
       THEN /\ alerted' = TRUE
            /\ UNCHANGED <<status, handlers>>
       ELSE /\ status' = "GENERATING_VIDEO"
            /\ handlers' = Append(handlers, "video")
            /\ alerted' = FALSE
    /\ UNCHANGED <<appSlides, videoUrl>>

\* a pointer click on the generate button: it reaches the button only when
\* no overlay covers the page, and leaves the focus on the button
ClickGenerate ==
    /\ GenerateButton
    /\ ~BusyOverlay
    /\ ~ErrorOverlay
    /\ focus' = "generate"
    /\ HandleGenerateVideo

\* the Tab key moves the focus to the generate button; the overlays do not
\* take the page out of the tab order
FocusGenerate ==
    /\ GenerateButton
    /\ focus # "generate"
    /\ focus' = "generate"
    /\ UNCHANGED <<status, appSlides, videoUrl, handlers, alerted>>

\* Enter or Space on the focused generate button fires its onClick
KeyGenerate ==
    /\ GenerateButton
    /\ focus = "generate"
    /\ focus' = focus
    /\ HandleGenerateVideo

\* await generateVideo(...) resolves in call h (lines 294-297)
VideoResolved ==
    \E h \in InFlight :
        /\ handlers' = [handlers EXCEPT ![h] = "metadata"]
        /\ videoUrl' = h
        /\ UNCHANGED <<status, appSlides, focus, alerted>>

\* await generateVideo(...) rejects in call h (lines 300-304)
VideoRejected ==
    \E h \in InFlight :
        /\ handlers' = [handlers EXCEPT ![h] = "done"]
        /\ status' = "ERROR"
        /\ UNCHANGED <<appSlides, videoUrl, focus, alerted>>

\* await generateVideoMetadata(...) resolves in call h (lines 298-299)
MetadataResolved ==
    \E h \in DOMAIN handlers :
        /\ handlers[h] = "metadata"
        /\ handlers' = [handlers EXCEPT ![h] = "done"]
        /\ status' = "COMPLETED"
        /\ UNCHANGED <<appSlides, videoUrl, focus, alerted>>

\* await generateVideoMetadata(...) rejects in call h (lines 300-304)
MetadataRejected ==
    \E h \in DOMAIN handlers :
        /\ handlers[h] = "metadata"
        /\ handlers' = [handlers EXCEPT ![h] = "done"]
        /\ status' = "ERROR"
        /\ UNCHANGED <<appSlides, videoUrl, focus, alerted>>

\* the close button of the error overlay (line 434)
CloseError ==
    /\ ErrorOverlay
    /\ status' = "IDLE"
    /\ focus' = "none"
    /\ UNCHANGED <<appSlides, videoUrl, handlers, alerted>>

AppNext ==
    \/ ClickGenerate /\ UNCHANGED <<vars, fitVars, apiVars, twiceVars, editVars>>
    \/ FocusGenerate /\ UNCHANGED <<vars, fitVars, apiVars, twiceVars, editVars>>
    \/ KeyGenerate /\ UNCHANGED <<vars, fitVars, apiVars, twiceVars, editVars>>
    \/ VideoResolved /\ UNCHANGED <<vars, fitVars, apiVars, twiceVars, editVars>>
    \/ VideoRejected /\ UNCHANGED <<vars, fitVars, apiVars, twiceVars, editVars>>
    \/ MetadataResolved /\ UNCHANGED <<vars, fitVars, apiVars, twiceVars, editVars>>
    \/ MetadataRejected /\ UNCHANGED <<vars, fitVars, apiVars, twiceVars, editVars>>
    \/ CloseError /\ UNCHANGED <<vars, fitVars, apiVars, twiceVars, editVars>>

SpecApp == AppInit /\ [][AppNext]_all

\* ------------------------------------------ App.tsx: the slide editor
\* script texts: empty, and two texts that can be spoken
Texts == {"", "a", "b"}

\* !script.trim()
Blank(t) == t \in {"", " "}

\* no audioBlob (null); an audioBlob is represented by a one-element
\* sequence holding the text it was synthesized from
NoAudio == <<>>

\* the slide handleFileUpload (lines 55-66) and handleInsertSlide (lines
\* 191-202) create; of the fields of Slide, imageBlob and imageUrl are never
\* written again, audioUrl and duration are written with audioBlob only
NewSlide(id, index) ==
    [id |-> id, pageIndex |-> index, script |-> "", audio |-> NoAudio,
     isProcessing |-> FALSE, status |-> "pending"]

\* mutant of reindexSlides: the slides keep the pageIndex they have
ReindexNot(list) == list

\* reindexSlides (lines 30-32); pageIndex is 0-based
reindexSlides(list) ==
    [k \in DOMAIN list |-> [list[k] EXCEPT !.pageIndex = k - 1]]

Ids(list) == {list[k].id : k \in DOMAIN list}

\* prev.findIndex(s => s.id === id), 1-based; 0 for JavaScript's -1
FindIndex(list, id) ==
    IF id \in Ids(list)
    THEN CHOOSE k \in DOMAIN list :
             /\ list[k].id = id
             /\ \A m \in 1..(k - 1) : list[m].id # id
    ELSE 0

\* mutant of DeleteSlide: the id is taken for the slide's page number
DeleteSlideAt(prev, id) ==
    LET filtered == SelectSeq(prev, LAMBDA s : s.pageIndex + 1 # id)
    IN  [k \in DOMAIN filtered |-> [filtered[k] EXCEPT !.pageIndex = k - 1]]

\* the updater of handleDeleteSlide (lines 162-170)
DeleteSlide(prev, id) ==
    LET filtered == SelectSeq(prev, LAMBDA s : s.id # id)
    IN  [k \in DOMAIN filtered |-> [filtered[k] EXCEPT !.pageIndex = k - 1]]

\* the updater of handleMoveSlide (lines 175-186)
MoveSlide(prev, id, direction) ==
    LET index == FindIndex(prev, id)
        targetIndex == IF direction = "up" THEN index - 1 ELSE index + 1
    IN  IF index = 0 THEN prev
        ELSE IF direction = "up" /\ index = 1 THEN prev
        ELSE IF direction = "down" /\ index = Len(prev) THEN prev
        ELSE reindexSlides([prev EXCEPT ![index] = prev[targetIndex],
                                        ![targetIndex] = prev[index]])

\* the updater of handleInsertSlide (lines 204-208): splice(index, 0,
\* newSlide) with a 0-based index, which appends when index is past the end
InsertSlide(prev, index, newSlide) ==
    LET at == Min(index, Len(prev))
    IN  reindexSlides(SubSeq(prev, 1, at) \o <<newSlide>>
                          \o SubSeq(prev, at + 1, Len(prev)))

\* prev.map(s => s.id === id ? F(s) : s)
Patch(prev, id, F(_)) ==
    [k \in DOMAIN prev |-> IF prev[k].id = id THEN F(prev[k]) ELSE prev[k]]

Job(kind, id, at, script, todo) ==
    [kind |-> kind, id |-> id, at |-> at, script |-> script, todo |-> todo]

\* the handler calls that are awaiting, of one kind
Awaiting(kind) == {j \in DOMAIN jobs : jobs[j].kind = kind}

\* the call has returned
Settle(j) == [k \in 1..(Len(jobs) - 1) |-> IF k < j THEN jobs[k] ELSE jobs[k + 1]]

\* the slide lists the editor holds when no handler is running: every
\* slide has its script and the audio made from it
Decks ==
    {[k \in 1..n |->
         [id |-> k, pageIndex |-> k - 1, script |-> "a",
          audio |-> <<"a">>, isProcessing |-> FALSE,
          status |-> "ready"]] :
       n \in 0..MaxSlides}

DeckInit ==
    /\ RunIdle
    /\ FitIdle
    /\ ApiIdle
    /\ TwiceIdle
    /\ status = "IDLE"
    /\ appSlides \in Decks
    /\ videoUrl = 0
    /\ focus = "none"
    /\ handlers = <<>>
    /\ alerted = FALSE
    /\ jobs = <<>>
    /\ nextId = Len(appSlides) + 1
    /\ note = NoNote

\* an image file is chosen in one of the insert controls, which no key
\* reaches (a label around a hidden input): onInsert(slide.pageIndex, file)
\* (SlideEditor, line 62) or handleInsertSlide(slides.length, file) (line
\* 461); handleInsertSlide awaits file.arrayBuffer() (line 190)
StartInsert ==
    /\ ~BusyOverlay
    /\ ~ErrorOverlay
    /\ Len(jobs) < MaxJobs
    /\ \E index \in {appSlides[k].pageIndex : k \in DOMAIN appSlides}
                       \cup {Len(appSlides)} :
          /\ Len(appSlides) > 0
          /\ jobs' = Append(jobs, Job("insert", 0, index, "", <<>>))
    /\ note' = NoNote
    /\ UNCHANGED <<appVars, nextId>>

\* file.arrayBuffer() resolves: lines 190-208
Inserted ==
    \E j \in Awaiting("insert") :
        /\ nextId <= MaxIds
        /\ appSlides' = InsertSlide(appSlides, jobs[j].at,
                                    NewSlide(nextId, jobs[j].at))
        /\ nextId' = nextId + 1
        /\ jobs' = Settle(j)
        /\ note' = IF jobs[j].at > Len(appSlides)
                   THEN Note("late insert", nextId, "", appSlides)
                   ELSE NoNote
        /\ UNCHANGED <<status, videoUrl, focus, handlers, alerted>>

\* file.arrayBuffer() rejects: nothing is caught, nothing changes
InsertFailed ==
    \E j \in Awaiting("insert") :
        /\ jobs' = Settle(j)
        /\ note' = NoNote
        /\ UNCHANGED <<appVars, nextId>>

\* handleDeleteSlide(id), from a slide's confirm button; the handler is
\* also defined for an id that is not in the list
Delete ==
    \E id \in 1..MaxIds :
        /\ appSlides' = DeleteSlide(appSlides, id)
        /\ note' = Note("delete", id, "", appSlides)
        /\ UNCHANGED <<status, videoUrl, focus, handlers, alerted, jobs,
                       nextId>>

\* handleMoveSlide(id, direction), from a slide's up and down buttons
Move ==
    \E id \in 1..MaxIds, direction \in {"up", "down"} :
        /\ appSlides' = MoveSlide(appSlides, id, direction)
        /\ note' = Note("move", id, direction, appSlides)
        /\ UNCHANGED <<status, videoUrl, focus, handlers, alerted, jobs,
                       nextId>>

\* handleFileUpload up to await convertPdfToImages(file) (lines 35-53); its
\* button is reached by pointer, or by keyboard under an overlay
StartUpload ==
    /\ Len(jobs) < MaxJobs
    /\ appSlides' = <<>>
    /\ videoUrl' = 0
    /\ status' = "PROCESSING_PDF"
    /\ jobs' = Append(jobs, Job("upload", 0, 0, "", <<>>))
    /\ note' = NoNote
    /\ UNCHANGED <<focus, handlers, alerted, nextId>>

\* convertPdfToImages resolves with n page images: lines 55-69
Uploaded ==
    \E j \in Awaiting("upload"), n \in 1..MaxSlides :
        /\ nextId + n - 1 <= MaxIds
        /\ appSlides' = [k \in 1..n |-> NewSlide(nextId + k - 1, k - 1)]
        /\ nextId' = nextId + n
        /\ status' = "IDLE"
        /\ jobs' = Settle(j)
        /\ note' = NoNote
        /\ UNCHANGED <<videoUrl, focus, handlers, alerted>>

\* convertPdfToImages rejects: lines 70-74
UploadFailed ==
    \E j \in Awaiting("upload") :
        /\ status' = "ERROR"
        /\ jobs' = Settle(j)
        /\ note' = NoNote
        /\ UNCHANGED <<appSlides, videoUrl, focus, handlers, alerted, nextId>>

DeckNext ==
    \/ StartInsert /\ UNCHANGED <<vars, fitVars, apiVars, twiceVars>>
    \/ Inserted /\ UNCHANGED <<vars, fitVars, apiVars, twiceVars>>
    \/ InsertFailed /\ UNCHANGED <<vars, fitVars, apiVars, twiceVars>>
    \/ Delete /\ UNCHANGED <<vars, fitVars, apiVars, twiceVars>>
    \/ Move /\ UNCHANGED <<vars, fitVars, apiVars, twiceVars>>
    \/ StartUpload /\ UNCHANGED <<vars, fitVars, apiVars, twiceVars>>
    \/ Uploaded /\ UNCHANGED <<vars, fitVars, apiVars, twiceVars>>
    \/ UploadFailed /\ UNCHANGED <<vars, fitVars, apiVars, twiceVars>>
    \/ CloseError /\ note' = NoNote /\ UNCHANGED <<jobs, nextId>>
           /\ UNCHANGED <<vars, fitVars, apiVars, twiceVars>>

SpecDeck == DeckInit /\ [][DeckNext]_all

\* ------------------------------- App.tsx: scripts and audio of the slides
\* The buttons and the textarea of a slide are reached by pointer when no
\* overlay is shown and by keyboard (Tab, Enter, typing) when one is: the
\* overlays are fixed divs above the page and disable nothing.

Processing(s) == [s EXCEPT !.isProcessing = TRUE]

NotProcessing(s) == [s EXCEPT !.isProcessing = FALSE]

\* mutant of Voiced: the slide is ready, its audio left as it was
VoicedNot(s, script) ==
    [s EXCEPT !.isProcessing = FALSE, !.status = "ready"]

\* lines 131-138, 236-243: the slide gets the audio synthesized from script
Voiced(s, script) ==
    [s EXCEPT !.isProcessing = FALSE, !.audio = <<script>>,
              !.status = "ready"]

\* mutant of SpeechFailed: the failure is taken for a success
SpeechFailedReady(s) ==
    [s EXCEPT !.isProcessing = FALSE, !.status = "ready"]

\* line 144: the batch's inner catch
SpeechFailed(s) == [s EXCEPT !.isProcessing = FALSE, !.status = "error"]

\* the calls of the per-slide handlers that are in flight
Edits == {j \in DOMAIN jobs : jobs[j].id # 0}

\* the slide lists of n slides before any audio was made
Drafts(n) ==
    {[k \in 1..n |-> [NewSlide(k, k - 1) EXCEPT !.script = t[k]]] :
       t \in [1..n -> {"", " ", "a"}]}

EditInit ==
    /\ RunIdle
    /\ FitIdle
    /\ ApiIdle
    /\ TwiceIdle
    /\ status = "IDLE"
    /\ \E n \in 1..MaxDrafts : appSlides \in Drafts(n)
    /\ videoUrl = 0
    /\ focus = "none"
    /\ handlers = <<>>
    /\ alerted = FALSE
    /\ jobs = <<>>
    /\ nextId = Len(appSlides) + 1
    /\ note = NoNote

\* handleUpdateScript (lines 157-159), from a slide's textarea
UpdateScript ==
    \E k \in DOMAIN appSlides, text \in Texts :
        /\ appSlides' = Patch(appSlides, appSlides[k].id,
                              LAMBDA s : [s EXCEPT !.script = text,
                                                   !.status = "pending"])
        /\ note' = NoNote
        /\ UNCHANGED <<status, videoUrl, focus, handlers, alerted, jobs,
                       nextId>>

\* handleRegenerateScript up to await generateSingleScript (lines 211-218);
\* its button is disabled while the slide is processing
StartScript ==
    \E k \in DOMAIN appSlides :
        /\ ~appSlides[k].isProcessing
        /\ Cardinality(Edits) < MaxEdits
        /\ appSlides' = Patch(appSlides, appSlides[k].id, Processing)
        /\ jobs' = Append(jobs, Job("script", appSlides[k].id, 0, "", <<>>))
        /\ note' = NoNote
        /\ UNCHANGED <<status, videoUrl, focus, handlers, alerted, nextId>>

\* generateSingleScript resolves with a text (line 219)
ScriptDone ==
    \E j \in Awaiting("script"), text \in Texts :
        /\ appSlides' = Patch(appSlides, jobs[j].id,
                              LAMBDA s : [s EXCEPT !.script = text,
                                                   !.isProcessing = FALSE,
                                                   !.status = "pending"])
        /\ jobs' = Settle(j)
        /\ note' = NoNote
        /\ UNCHANGED <<status, videoUrl, focus, handlers, alerted, nextId>>

\* generateSingleScript rejects (lines 220-223)
ScriptFailed ==
    \E j \in Awaiting("script") :
        /\ appSlides' = Patch(appSlides, jobs[j].id, NotProcessing)
        /\ jobs' = Settle(j)
        /\ note' = NoNote
        /\ UNCHANGED <<status, videoUrl, focus, handlers, alerted, nextId>>

\* handleRegenerateAudio up to await generateSpeech(slide.script, ...)
\* (lines 226-231); its button is disabled while the slide is processing
\* or has no script
StartAudio ==
    \E k \in DOMAIN appSlides :
        /\ ~appSlides[k].isProcessing
        /\ appSlides[k].script # ""
        /\ Cardinality(Edits) < MaxEdits
        /\ appSlides' = Patch(appSlides, appSlides[k].id, Processing)
        /\ jobs' = Append(jobs, Job("audio", appSlides[k].id, 0,
                                    appSlides[k].script, <<>>))
        /\ note' = NoNote
        /\ UNCHANGED <<status, videoUrl, focus, handlers, alerted, nextId>>

\* generateSpeech and getAudioDuration resolve (lines 231-246); nothing is
\* written between the two awaits
AudioDone ==
    \E j \in Awaiting("audio") :
        /\ appSlides' = Patch(appSlides, jobs[j].id,
                              LAMBDA s : Voiced(s, jobs[j].script))
        /\ jobs' = Settle(j)
        /\ note' = NoNote
        /\ UNCHANGED <<status, videoUrl, focus, handlers, alerted, nextId>>

\* generateSpeech or getAudioDuration rejects (lines 247-250)
AudioFailed ==
    \E j \in Awaiting("audio") :
        /\ appSlides' = Patch(appSlides, jobs[j].id, NotProcessing)
        /\ jobs' = Settle(j)
        /\ note' = NoNote
        /\ UNCHANGED <<status, videoUrl, focus, handlers, alerted, nextId>>

\* handleRegenerateBoth up to await generateSingleScript (lines 253-260)
StartBoth ==
    \E k \in DOMAIN appSlides :
        /\ ~appSlides[k].isProcessing
        /\ Cardinality(Edits) < MaxEdits
        /\ appSlides' = Patch(appSlides, appSlides[k].id, Processing)
        /\ jobs' = Append(jobs, Job("both", appSlides[k].id, 1, "", <<>>))
        /\ note' = NoNote
        /\ UNCHANGED <<status, videoUrl, focus, handlers, alerted, nextId>>

\* generateSingleScript resolves with newScript; await generateSpeech(
\* newScript, ...) (lines 260-261)
BothScripted ==
    \E j \in Awaiting("both"), text \in Texts :
        /\ jobs[j].at = 1
        /\ jobs' = [jobs EXCEPT ![j].at = 2, ![j].script = text]
        /\ note' = NoNote
        /\ UNCHANGED <<appVars, nextId>>

\* generateSpeech and getAudioDuration resolve (lines 261-277)
BothDone ==
    \E j \in Awaiting("both") :
        /\ jobs[j].at = 2
        /\ appSlides' =
               Patch(appSlides, jobs[j].id,
                     LAMBDA s : Voiced([s EXCEPT !.script = jobs[j].script],
                                       jobs[j].script))
        /\ jobs' = Settle(j)
        /\ note' = NoNote
        /\ UNCHANGED <<status, videoUrl, focus, handlers, alerted, nextId>>

\* one of the awaits of handleRegenerateBoth rejects (lines 278-282)
BothFailed ==
    \E j \in Awaiting("both") :
        /\ appSlides' = Patch(appSlides, jobs[j].id, NotProcessing)
        /\ jobs' = Settle(j)
        /\ alerted' = TRUE
        /\ note' = NoNote
        /\ UNCHANGED <<status, videoUrl, focus, handlers, nextId>>

\* handleBatchAudioGeneration up to its first await (lines 102-124); its
\* button is disabled unless status is IDLE and some slide has a script
StartBatchAudio ==
    /\ status = "IDLE"
    /\ \E k \in DOMAIN appSlides : appSlides[k].script # ""
    /\ IF \E k \in DOMAIN appSlides : Blank(appSlides[k].script)
       THEN /\ alerted' = TRUE
            /\ note' = Note("batch refused", 0, "", appSlides)
            /\ UNCHANGED <<status, appSlides, jobs>>
       ELSE LET slidesToProcess ==
                    [k \in DOMAIN appSlides |->
                        [id |-> appSlides[k].id,
                         script |-> appSlides[k].script]]
            IN  /\ status' = "GENERATING_AUDIO"
                /\ appSlides' = Patch(appSlides, slidesToProcess[1].id,
                                      Processing)
                /\ jobs' = Append(jobs, Job("batch", 0, 1, "",
                                            slidesToProcess))
                /\ alerted' = alerted
                /\ note' = NoNote
    /\ UNCHANGED <<videoUrl, focus, handlers, nextId>>

\* the batch goes on from the slide it has just settled (lines 115-121 for
\* the next slide, lines 147-148 after the last); list is the slide list
\* with that slide's update applied
BatchGoesOn(j, list, how) ==
    LET job == jobs[j]
    IN  IF job.at < Len(job.todo)
        THEN /\ appSlides' = Patch(list, job.todo[job.at + 1].id, Processing)
             /\ jobs' = [jobs EXCEPT ![j].at = job.at + 1]
             /\ status' = status
             /\ note' = Note("batch step", job.todo[job.at].id, how,
                             appSlides)
        ELSE /\ appSlides' = list
             /\ jobs' = Settle(j)
             /\ status' = "IDLE"
             /\ note' = Note("batch end", job.todo[job.at].id, how,
                             appSlides)

\* the batch's generateSpeech and getAudioDuration resolve (lines 124-141)
BatchSpoken ==
    \E j \in Awaiting("batch") :
        LET target == jobs[j].todo[jobs[j].at]
        IN  /\ BatchGoesOn(j, Patch(appSlides, target.id,
                                    LAMBDA s : Voiced(s, target.script)),
                           "spoken")
            /\ UNCHANGED <<videoUrl, focus, handlers, alerted, nextId>>

\* the batch's generateSpeech or getAudioDuration rejects (lines 142-145)
BatchSpeechFailed ==
    \E j \in Awaiting("batch") :
        LET target == jobs[j].todo[jobs[j].at]
        IN  /\ BatchGoesOn(j, Patch(appSlides, target.id, SpeechFailed),
                           "failed")
            /\ UNCHANGED <<videoUrl, focus, handlers, alerted, nextId>>

\* handleBatchScriptGeneration up to await generateScripts (lines 79-86);
\* its button is disabled unless status is IDLE
StartBatchScripts ==
    /\ status = "IDLE"
    /\ Len(appSlides) > 0
    /\ status' = "GENERATING_SCRIPTS"
    /\ jobs' = Append(jobs, Job("scripts", 0, Len(appSlides), "", <<>>))
    /\ note' = NoNote
    /\ UNCHANGED <<appSlides, videoUrl, focus, handlers, alerted, nextId>>

\* generateScripts resolves (lines 88-94) with one entry per image, empty
\* or a text: script: scripts[i] || slide.script
BatchScripted ==
    \E j \in Awaiting("scripts") :
        \E scripts \in [1..jobs[j].at -> {"", "a"}] :
            /\ appSlides' =
                   [k \in DOMAIN appSlides |->
                       IF k <= Len(scripts) /\ scripts[k] # ""
                       THEN [appSlides[k] EXCEPT !.script = scripts[k]]
                       ELSE appSlides[k]]
            /\ status' = "IDLE"
            /\ jobs' = Settle(j)
            /\ note' = NoNote
            /\ UNCHANGED <<videoUrl, focus, handlers, alerted, nextId>>

\* generateScripts rejects (lines 95-99)
BatchScriptsFailed ==
    \E j \in Awaiting("scripts") :
        /\ status' = "ERROR"
        /\ jobs' = Settle(j)
        /\ note' = NoNote
        /\ UNCHANGED <<appSlides, videoUrl, focus, handlers, alerted, nextId>>

\* the generate button is clicked: handleGenerateVideo; the history keeps
\* the slides given to generateVideo
EditGenerate ==
    /\ ClickGenerate
    /\ note' = IF Len(handlers') > Len(handlers)
               THEN Note("video", 0, "", appSlides) ELSE NoNote
    /\ UNCHANGED <<jobs, nextId>>

EditNext ==
    \/ UpdateScript /\ UNCHANGED <<vars, fitVars, apiVars, twiceVars>>
    \/ StartScript /\ UNCHANGED <<vars, fitVars, apiVars, twiceVars>>
    \/ ScriptDone /\ UNCHANGED <<vars, fitVars, apiVars, twiceVars>>
    \/ ScriptFailed /\ UNCHANGED <<vars, fitVars, apiVars, twiceVars>>
    \/ StartAudio /\ UNCHANGED <<vars, fitVars, apiVars, twiceVars>>
    \/ AudioDone /\ UNCHANGED <<vars, fitVars, apiVars, twiceVars>>
    \/ AudioFailed /\ UNCHANGED <<vars, fitVars, apiVars, twiceVars>>
    \/ StartBoth /\ UNCHANGED <<vars, fitVars, apiVars, twiceVars>>
    \/ BothScripted /\ UNCHANGED <<vars, fitVars, apiVars, twiceVars>>
    \/ BothDone /\ UNCHANGED <<vars, fitVars, apiVars, twiceVars>>
    \/ BothFailed /\ UNCHANGED <<vars, fitVars, apiVars, twiceVars>>

SpecEdit == EditInit /\ [][EditNext]_all

\* ----------------------------------- App.tsx: handleBatchAudioGeneration

BatchInit ==
    /\ RunIdle
    /\ FitIdle
    /\ ApiIdle
    /\ TwiceIdle
    /\ status = "IDLE"
    /\ \E n \in 1..MaxSlides : appSlides \in Drafts(n)
    /\ videoUrl = 0
    /\ focus = "none"
    /\ handlers = <<>>
    /\ alerted = FALSE
    /\ jobs = <<>>
    /\ nextId = Len(appSlides) + 1
    /\ note = NoNote

BatchNext ==
    \/ StartBatchAudio /\ UNCHANGED <<vars, fitVars, apiVars, twiceVars>>
    \/ BatchSpoken /\ UNCHANGED <<vars, fitVars, apiVars, twiceVars>>
    \/ BatchSpeechFailed /\ UNCHANGED <<vars, fitVars, apiVars, twiceVars>>
    \/ StartAudio /\ UNCHANGED <<vars, fitVars, apiVars, twiceVars>>
    \/ AudioDone /\ UNCHANGED <<vars, fitVars, apiVars, twiceVars>>
    \/ AudioFailed /\ UNCHANGED <<vars, fitVars, apiVars, twiceVars>>
    \/ EditGenerate /\ UNCHANGED <<vars, fitVars, apiVars, twiceVars>>
    \/ VideoRejected /\ note' = NoNote /\ UNCHANGED <<jobs, nextId>>
           /\ UNCHANGED <<vars, fitVars, apiVars, twiceVars>>
    \/ CloseError /\ note' = NoNote /\ UNCHANGED <<jobs, nextId>>
           /\ UNCHANGED <<vars, fitVars, apiVars, twiceVars>>

SpecBatch == BatchInit /\ [][BatchNext]_all

\* ------------------------------------- App.tsx: the handlers with a busy
\* status: upload, batch scripts and video, started by pointer or keyboard

BusyNext ==
    \/ ClickGenerate /\ note' = NoNote /\ UNCHANGED <<jobs, nextId>>
           /\ UNCHANGED <<vars, fitVars, apiVars, twiceVars>>
    \/ FocusGenerate /\ note' = NoNote /\ UNCHANGED <<jobs, nextId>>
           /\ UNCHANGED <<vars, fitVars, apiVars, twiceVars>>
    \/ KeyGenerate /\ note' = NoNote /\ UNCHANGED <<jobs, nextId>>
           /\ UNCHANGED <<vars, fitVars, apiVars, twiceVars>>
    \/ VideoResolved /\ note' = NoNote /\ UNCHANGED <<jobs, nextId>>
           /\ UNCHANGED <<vars, fitVars, apiVars, twiceVars>>
    \/ VideoRejected /\ note' = NoNote /\ UNCHANGED <<jobs, nextId>>
           /\ UNCHANGED <<vars, fitVars, apiVars, twiceVars>>
    \/ MetadataResolved /\ note' = NoNote /\ UNCHANGED <<jobs, nextId>>
           /\ UNCHANGED <<vars, fitVars, apiVars, twiceVars>>
    \/ MetadataRejected /\ note' = NoNote /\ UNCHANGED <<jobs, nextId>>
           /\ UNCHANGED <<vars, fitVars, apiVars, twiceVars>>
    \/ CloseError /\ note' = NoNote /\ UNCHANGED <<jobs, nextId>>
           /\ UNCHANGED <<vars, fitVars, apiVars, twiceVars>>
    \/ StartUpload /\ UNCHANGED <<vars, fitVars, apiVars, twiceVars>>
    \/ Uploaded /\ UNCHANGED <<vars, fitVars, apiVars, twiceVars>>
    \/ UploadFailed /\ UNCHANGED <<vars, fitVars, apiVars, twiceVars>>
    \/ StartBatchScripts /\ UNCHANGED <<vars, fitVars, apiVars, twiceVars>>
    \/ BatchScripted /\ UNCHANGED <<vars, fitVars, apiVars, twiceVars>>
    \/ BatchScriptsFailed /\ UNCHANGED <<vars, fitVars, apiVars, twiceVars>>

SpecBusy == DeckInit /\ [][BusyNext]_all

\* ------------------------------------------- generateVideo, called twice
\* mutant of FreshClock: one AudioContext kept at module level, its clock
\* running on from the first invocation
SharedClock == clock

\* new AudioContextClass() (line 31): currentTime of a new context
FreshClock == 0

\* a runtime in which generateVideo gets as far as the slide loop
Capable(c) ==
    /\ c.ctx /\ c.audioContext /\ c.captureStream /\ c.mediaRecorder
    /\ c.isTypeSupported /\ c.mp4 /\ c.h264 /\ c.vp9

\* what an invocation has come to: everything but its arguments
Obs ==
    <<pc, i, mimeType, recorderMime, audioCtx, recorder, recEvents,
      videoTrack, audioTrack, canvas, clock, timer, endTime, chunks, result,
      blob, error, log, drawn, lateCb, recStart, recStartAt, loopEndAt,
      recStop, recStopAt, messages, delivered>>

\* the slides with their duration fields set to d
Restamp(list, d) == [k \in DOMAIN list |-> [list[k] EXCEPT !.duration = d]]

TwiceInit ==
    /\ Init
    /\ Capable(caps)

\* a step of the environment, named act: the first invocation records it
\* with the recorder's choices (how many events it queues, what it
\* delivers); the second invocation takes only the step the first took at
\* the same place. A refresh callback that changes nothing is not counted.
\* The caller awaits the first promise and calls again when it is settled;
\* the recorder hands over what it holds in one dataavailable event.
Step(act) ==
    LET label == <<act, recEvents', delivered'>>
    IN  /\ run = 1 => result = "pending"
        /\ act = "TimerFired" => Len(recEvents') = 2
        /\ IF vars' = vars
           THEN UNCHANGED <<sched, first>>
           ELSE IF run = 1
           THEN /\ sched' = Append(sched, [label |-> label, obs |-> Obs'])
                /\ first' = first
           ELSE /\ first.at < Len(sched)
                /\ sched[first.at + 1].label = label
                /\ first' = [first EXCEPT !.at = first.at + 1]
                /\ sched' = sched
        /\ run' = run

\* generateVideo is called again when the first promise is settled: same
\* runtime, the same slides but for their duration fields (0 as a slide is
\* inserted with, or the longest duration); canvas, audio context, recorder
\* and chunks are created anew by the call (lines 9-50)
Again ==
    /\ run = 1
    /\ result # "pending"
    /\ run' = 2
    /\ \E list \in {slides} \cup {Restamp(slides, d) : d \in {0, MaxDur}} :
          slides' = list
    /\ first' = [slides |-> slides, at |-> 0]
    /\ clock' = FreshClock
    /\ pc' = "idle"
    /\ i' = 0
    /\ mimeType' = ""
    /\ recorderMime' = ""
    /\ audioCtx' = "none"
    /\ recorder' = "none"
    /\ recEvents' = <<>>
    /\ videoTrack' = "none"
    /\ audioTrack' = "none"
    /\ canvas' = [fill |-> "none", image |-> 0]
    /\ timer' = 0
    /\ endTime' = 0
    /\ chunks' = <<>>
    /\ result' = "pending"
    /\ blob' = NoBlob
    /\ error' = ""
    /\ log' = <<>>
    /\ drawn' = {}
    /\ lateCb' = 0
    /\ recStart' = 0
    /\ recStartAt' = 0
    /\ loopEndAt' = 0
    /\ recStop' = 0
    /\ recStopAt' = 0
    /\ messages' = <<>>
    /\ delivered' = <<>>
    /\ UNCHANGED <<caps, sched>>

TwiceNext ==
    \/ Call /\ Step("Call") /\ UNCHANGED <<fitVars, apiVars, appVars, editVars>>
    \/ Resumed /\ Step("Resumed") /\ UNCHANGED <<fitVars, apiVars, appVars, editVars>>
    \/ ImageLoaded /\ Step("ImageLoaded")
           /\ UNCHANGED <<fitVars, apiVars, appVars, editVars>>
    \/ ImageError /\ Step("ImageError")
           /\ UNCHANGED <<fitVars, apiVars, appVars, editVars>>
    \/ DecodeError /\ Step("DecodeError")
           /\ UNCHANGED <<fitVars, apiVars, appVars, editVars>>
    \/ AudioDecoded /\ Step("AudioDecoded")
           /\ UNCHANGED <<fitVars, apiVars, appVars, editVars>>
    \/ Frame /\ Step("Frame") /\ UNCHANGED <<fitVars, apiVars, appVars, editVars>>
    \/ Tick /\ Step("Tick") /\ UNCHANGED <<fitVars, apiVars, appVars, editVars>>
    \/ TimerFired /\ Step("TimerFired")
           /\ UNCHANGED <<fitVars, apiVars, appVars, editVars>>
    \/ DataAvailable /\ Step("DataAvailable")
           /\ UNCHANGED <<fitVars, apiVars, appVars, editVars>>
    \/ RecorderStopped /\ Step("RecorderStopped")
           /\ UNCHANGED <<fitVars, apiVars, appVars, editVars>>
    \/ Again /\ UNCHANGED <<fitVars, apiVars, appVars, editVars>>

SpecTwice == TwiceInit /\ [][TwiceNext]_all

\* ------------------------------------------------------------ history
\* positions of the log where slide k has an event of this kind
Events(kind, k) ==
    {p \in DOMAIN log : log[p].ev = kind /\ log[p].slide = k}

HasAudio(k) == slides[k].audioBlob # NullBlob

RECURSIVE SumAudio(_)
SumAudio(k) ==
    IF k = 0 THEN 0
    ELSE SumAudio(k - 1) + (IF HasAudio(k) THEN slides[k].audioBlob ELSE 0)

LoopLeft == pc \in {"buffer", "stopping"} \/ result = "resolved"

\* ------------------------------------------------------------- claims

\* C1: a slide whose audioBlob is null gets no image load, no audio source
\* and no draw; after its progress message the loop goes straight on to the
\* next slide (or leaves the loop), and the run never fails at that slide.
C1_SkippedSlideDoesNothing ==
    \A k \in DOMAIN slides :
        slides[k].audioBlob = NullBlob =>
            /\ Events("load", k) = {}
            /\ Events("start", k) = {}
            /\ Events("end", k) = {}
            /\ Events("error", k) = {}
            /\ k \notin drawn
            /\ canvas.image # k
            /\ (result = "rejected" => i # k)
            /\ \A p \in Events("progress", k) :
                  IF k < Len(slides)
                  THEN /\ p < Len(log)
                       /\ log[p + 1] = Ev("progress", k + 1, log[p].at)
                  ELSE /\ p = Len(log)
                       /\ LoopLeft
                       /\ loopEndAt = log[p].at

\* C1 witness: a run that passed a slide without audio, played a slide with
\* audio after it and resolved
C1_Witness ==
    /\ result = "resolved"
    /\ Len(slides) = 2
    /\ slides[1].audioBlob = NullBlob
    /\ Events("progress", 1) # {}
    /\ Events("end", 2) # {}

\* C2: when the slide loop is left, the time recorded since recorder.start()
\* equals the sum of the audio durations of the slides that have audio
C2_DurationIsSumOfAudio ==
    LoopLeft => loopEndAt - recStartAt = SumAudio(Len(slides))

\* C3: at most one slide is in its audio/draw phase; when slide j's source is
\* started, every earlier slide with audio has had its draw loop resolved,
\* and that slide's audio (start + duration) was over by then
C3_NoOverlap ==
    /\ Cardinality({k \in DOMAIN slides :
                       Events("start", k) # {} /\ Events("end", k) = {}}) <= 1
    /\ \A j \in DOMAIN slides : \A q \in Events("start", j) :
          \A k \in 1..(j - 1) :
              slides[k].audioBlob # NullBlob =>
                  \E p \in Events("start", k) : \E e \in Events("end", k) :
                      /\ p < e
                      /\ e < q
                      /\ log[p].at + slides[k].audioBlob <= log[e].at
                      /\ log[e].at <= log[q].at

\* C3 witness: the second slide's source has been started after the first
\* slide's audio
C3_Witness ==
    /\ Len(slides) = 2
    /\ Events("start", 1) # {}
    /\ Events("start", 2) # {}
    /\ pc = "drawing"

\* C4: a slide's source is started in the step in which its draw phase
\* starts, endTime is the start instant plus the audio's duration, and the
\* draw phase ends at the first callback that sees the audio clock at or
\* past endTime: never before the audio's end, and no callback that saw the
\* clock at or past endTime leaves the loop running
C4_AudioDrawSync ==
    /\ \A k \in DOMAIN slides : \A p \in Events("start", k) :
          /\ k \in drawn \/ (p < Len(log) /\ log[p + 1] = Ev("end", k, log[p].at))
          /\ (pc = "drawing" /\ i = k) =>
                 endTime = log[p].at + slides[k].audioBlob
          /\ \A e \in Events("end", k) :
                 log[e].at >= log[p].at + slides[k].audioBlob
    /\ lateCb <= 1
    /\ (pc = "drawing" => lateCb = 0)

\* C4 witness: a draw phase that ended one tick after the audio's end,
\* because the refresh callback came that late
C4_Witness ==
    \E k \in DOMAIN slides : \E p \in Events("start", k) :
        \E e \in Events("end", k) :
            /\ log[e].at = log[p].at + slides[k].audioBlob + 1
            /\ lateCb = 1

\* C5: slides with audio are loaded, started and ended in the order of the
\* list, each at most once, and a slide's load precedes its start, which
\* precedes its end
C5_SlideOrder ==
    /\ \A k \in DOMAIN slides :
          /\ Cardinality(Events("load", k)) <= 1
          /\ Cardinality(Events("start", k)) <= 1
          /\ Cardinality(Events("end", k)) <= 1
          /\ \A q \in Events("start", k) : \E p \in Events("load", k) : p < q
          /\ \A q \in Events("end", k) : \E p \in Events("start", k) : p < q
    /\ \A p, q \in DOMAIN log :
          (/\ p < q
           /\ log[p].ev \in {"load", "start", "end"}
           /\ log[q].ev \in {"load", "start", "end"})
              => log[p].slide <= log[q].slide
    /\ \A k \in drawn : Events("start", k) # {}

\* C5 witness: two slides with audio, both played to the end
C5_Witness ==
    /\ Len(slides) = 2
    /\ Events("end", 1) # {}
    /\ Events("end", 2) # {}

\* a failure after recording has started
MidRunFailure == result = "rejected" /\ recStart > 0

\* C6: after a failure in the middle of a run the promise is rejected and the
\* audio context is closed, the recorder stopped and all tracks stopped
C6_FailureReleasesResources ==
    MidRunFailure =>
        /\ audioCtx = "closed"
        /\ recorder # "recording"
        /\ videoTrack = "ended"
        /\ audioTrack = "ended"

\* C7: once the promise has resolved (and as soon as the blob exists) the
\* audio context has been closed and every track of the combined stream and
\* of the canvas stream has been stopped
C7_SuccessReleasesResources ==
    (result = "resolved" \/ blob.present) =>
        /\ audioCtx = "closed"
        /\ videoTrack = "ended"
        /\ audioTrack = "ended"
        /\ recorder = "inactive"
        /\ result = "resolved"
        /\ blob.present

\* C7 witness: a resolved run that played a slide
C7_Witness ==
    /\ result = "resolved"
    /\ \E k \in DOMAIN slides : Events("end", k) # {}

\* the drawing context, captureStream or MediaRecorder is missing
Unavailable == ~caps.ctx \/ ~caps.captureStream \/ ~caps.mediaRecorder

\* C8: without a drawing context, captureStream or MediaRecorder the run
\* rejects with recorder.start() never called, no slide processed and
\* onProgress never invoked
C8_CapabilityFailure ==
    Unavailable =>
        /\ recStart = 0
        /\ recorder # "recording"
        /\ log = <<>>
        /\ drawn = {}
        /\ result # "resolved"
        /\ pc \in {"idle", "resume", "done"}
        /\ (pc = "done" => result = "rejected")

\* C8 witness: a runtime without MediaRecorder, found after the audio
\* context was resumed
C8_Witness ==
    /\ ~caps.mediaRecorder
    /\ caps.ctx
    /\ caps.captureStream
    /\ caps.suspended
    /\ result = "rejected"
    /\ Len(slides) > 0

\* C9: once an image load or audio decode of slide k has failed, the promise
\* is rejected with that failure, there is no blob, the failure is the last
\* thing the run did (no later slide is reported, loaded or played, and
\* slide k is not tried again)
C9_FailureAborts ==
    \A p \in DOMAIN log :
        log[p].ev = "error" =>
            /\ result = "rejected"
            /\ error \in {"image error event", "audio decode error"}
            /\ pc = "done"
            /\ ~blob.present
            /\ p = Len(log)
            /\ i = log[p].slide
            /\ Cardinality(Events("load", i)) = 1
            /\ \A q \in DOMAIN log : log[q].slide <= i

\* C9 witness: the first of two slides with audio failed
C9_Witness ==
    /\ Len(slides) = 2
    /\ slides[2].audioBlob # NullBlob
    /\ Events("error", 1) # {}
    /\ result = "rejected"

\* C10: the MIME type is video/mp4 when the probe reports it, else
\* video/webm; codecs=h264 when the probe reports that, else
\* video/webm; codecs=vp9 (also without a probe); the recorder is configured
\* with it and the blob reports it
C10_MimeType ==
    LET probe(supported) ==
            caps.mediaRecorder /\ caps.isTypeSupported /\ supported
        expected == IF probe(caps.mp4) THEN "video/mp4"
                    ELSE IF probe(caps.h264) THEN "video/webm; codecs=h264"
                    ELSE "video/webm; codecs=vp9"
    IN  /\ (mimeType # "" => mimeType = expected)
        /\ (recorder # "none" => recorderMime = expected)
        /\ (blob.present =>
               /\ blob.type = expected
               /\ blob.type \in {"video/mp4", "video/webm; codecs=h264",
                                 "video/webm; codecs=vp9"})

\* C10 witness: a blob of the second choice, from a runtime that supports
\* H.264 in WebM but not MP4
C10_Witness ==
    /\ blob.present
    /\ blob.type = "video/webm; codecs=h264"
    /\ ~caps.mp4

\* C11: recorder.stop() is called only after the slide loop was left and at
\* least 500 ms after that; until then the recorder keeps recording
C11_TrailingBuffer ==
    /\ (recStop > 0 =>
           /\ LoopLeft
           /\ (recStopAt - loopEndAt) * TickMs >= BUFFER_MS)
    /\ (recStop = 0 /\ recStart > 0 => recorder = "recording")
    /\ (pc = "buffer" => recStop = 0)

\* C11 witness: a run that played a slide and called recorder.stop() when
\* the timer had run down
C11_Witness ==
    /\ recStop = 1
    /\ \E k \in DOMAIN slides : Events("end", k) # {}
    /\ recStopAt = loopEndAt + BufferTicks

\* C12: onProgress gets the message k/total for k = 1, 2, ... in this order,
\* once per slide whether it has audio or not, each before the slide's image
\* is loaded; a run that leaves the loop has reported every slide, and
\* nothing else is ever reported
C12_Progress ==
    /\ Len(messages) <= Len(slides)
    /\ \A k \in DOMAIN messages :
          messages[k] = [n |-> k, total |-> Len(slides)]
    /\ Len(SelectSeq(log, LAMBDA e : e.ev = "progress")) = Len(messages)
    /\ \A k \in DOMAIN messages : Cardinality(Events("progress", k)) = 1
    /\ \A k \in DOMAIN slides :
          \A p \in Events("load", k) \cup Events("start", k) :
              \E q \in Events("progress", k) : q < p
    /\ (pc \in {"loadImage", "decode", "drawing"} => Len(messages) = i)
    /\ (LoopLeft => Len(messages) = Len(slides))

\* C12 witness: two slides, the first without audio, both reported
C12_Witness ==
    /\ Len(slides) = 2
    /\ slides[1].audioBlob = NullBlob
    /\ slides[2].audioBlob # NullBlob
    /\ Len(messages) = 2
    /\ pc = "drawing"

\* the steps between the phases of a run: Idle, (resuming the context,)
\* Recording with per slide load, decode and draw, Finalizing (the trailing
\* buffer, then waiting for the recorder), and the end
PhaseSteps ==
    {<<"resume", "resume">>, <<"loadImage", "loadImage">>,
     <<"decode", "decode">>,
     <<"idle", "resume">>, <<"idle", "loadImage">>, <<"idle", "buffer">>,
     <<"idle", "done">>, <<"resume", "loadImage">>, <<"resume", "buffer">>,
     <<"resume", "done">>, <<"loadImage", "decode">>, <<"loadImage", "done">>,
     <<"decode", "drawing">>, <<"decode", "done">>,
     <<"drawing", "drawing">>, <<"drawing", "loadImage">>,
     <<"drawing", "buffer">>, <<"buffer", "buffer">>,
     <<"buffer", "stopping">>, <<"stopping", "stopping">>,
     <<"stopping", "done">>, <<"done", "done">>}

\* C17: a run goes through its phases in order; recorder.start() is called
\* at most once, before any audio is started, and exactly once by the time
\* the slide loop is entered; recorder.stop() is called at most
\* once, after every slide has been reported and every slide with audio
\* played to its end; the run ends either resolved with a blob or rejected
\* without one, and a settled promise stays as it is
C17_PhaseOrder ==
    /\ [](/\ recStart <= 1
          /\ recStop <= 1
          /\ (log # <<>> => recStart = 1)
          /\ (pc \in {"loadImage", "decode", "drawing", "buffer", "stopping"}
                 => recStart = 1)
          /\ \A p \in DOMAIN log : recStartAt <= log[p].at
          /\ (recStop = 1 =>
                 /\ recStart = 1
                 /\ Len(messages) = Len(slides)
                 /\ \A k \in DOMAIN slides :
                       slides[k].audioBlob # NullBlob => Events("end", k) # {})
          /\ (pc = "done" <=> result # "pending")
          /\ (result = "resolved" => blob.present /\ recStop = 1)
          /\ (result = "rejected" => ~blob.present /\ recStop = 0))
    /\ [][/\ <<pc, pc'>> \in PhaseSteps
          /\ (result # "pending" => result' = result)
          /\ (recStart' # recStart => log = <<>>)]_vars

\* C17 as stated: every run that has ended called recorder.start() exactly
\* once
C17_StartExactlyOnce == result # "pending" => recStart = 1

\* C17 witness: a resolved run of two slides with audio
C17_Witness ==
    /\ result = "resolved"
    /\ recStart = 1
    /\ recStop = 1
    /\ Len(slides) = 2
    /\ Events("end", 1) # {}
    /\ Events("end", 2) # {}

\* C19: the promise resolves only when the recorder's stop event has fired
\* (after every data event), and the blob's parts are exactly the non-empty
\* chunks delivered, in the order of delivery
C19_BlobChunks ==
    /\ chunks = SelectSeq(delivered, LAMBDA c : c.size > 0)
    /\ \A k \in DOMAIN delivered : delivered[k].id = k
    /\ (pc = "stopping" => result = "pending" /\ ~blob.present)
    /\ (result = "resolved" =>
           /\ recEvents = <<>>
           /\ recStop = 1
           /\ blob.parts = SelectSeq(delivered, LAMBDA c : c.size > 0))

\* C19 witness: an empty chunk and then a non-empty one were delivered
C19_Witness ==
    /\ result = "resolved"
    /\ Len(delivered) = 2
    /\ delivered[1].size = 0
    /\ delivered[2].size > 0

\* the audio clock has stopped (the model's horizon) while the run waits for
\* it: in a slide's draw phase before endTime, or for the 500 ms timer
Starved ==
    /\ clock = MaxClock
    /\ \/ pc = "drawing" /\ clock < endTime
       \/ pc = "buffer" /\ timer > 0

\* C18: under the environment's guarantees every run resolves or rejects,
\* unless the audio clock stops while the run waits for it; a run whose
\* clock has stopped before a slide's endTime stays in that draw phase for
\* ever, and the draw phase is only ever left by a refresh callback that
\* finds the clock at or after endTime (no timeout, no cancellation)
C18_Termination ==
    /\ <>(result # "pending" \/ Starved)
    /\ [](pc = "drawing" /\ Starved => [](pc = "drawing" /\ result = "pending"))
    /\ [][pc = "drawing" /\ pc' # "drawing" =>
             /\ clock >= endTime
             /\ clock' = clock
             /\ log' # log]_vars

\* C18 witness: a run that waited in a draw phase and for the timer and
\* then resolved while the clock could still advance
C18_Witness ==
    /\ result = "resolved"
    /\ drawn # {}
    /\ clock < MaxClock
    /\ recStopAt > loopEndAt

\* one unit in the last place of a number of the frame's size (2^-42)
Ulp == Shl(<<1>>, FracBits + BitLength(WIDTH) - Precision)

\* the value a + s for a number a and a signed number s, where it is >= 0
Plus(a, s) == IF s.neg THEN SubDigits(a, s.mag) ELSE AddDigits(a, s.mag, 0)

\* C13 as stated: the rectangle has exactly the image's aspect ratio, lies
\* inside the frame, is centered and touches the frame
C13_LetterboxExact ==
    rect # NoRect =>
        /\ MulDigits(rect.drawW, img.height, 0) = MulDigits(rect.drawH, img.width, 0)
        /\ rect.x.neg => rect.x.mag = <<>>
        /\ rect.y.neg => rect.y.mag = <<>>
        /\ LessEq(Plus(rect.drawW, rect.x), Fixed(WIDTH))
        /\ LessEq(Plus(rect.drawH, rect.y), Fixed(HEIGHT))
        /\ Plus(Plus(rect.drawW, rect.x), rect.x) = Fixed(WIDTH)
        /\ Plus(Plus(rect.drawH, rect.y), rect.y) = Fixed(HEIGHT)
        /\ (rect.drawW = Fixed(WIDTH) \/ rect.drawH = Fixed(HEIGHT))

\* C13: the rectangle has the image's aspect ratio, lies inside the frame,
\* is centered and touches the frame, each up to the rounding of the code's
\* arithmetic: drawW * h and drawH * w differ by at most 2^-51 of their
\* size, one of drawW, drawH is within one unit in the last place (2^-42)
\* of the frame's and neither is larger than that, x and y are not below
\* minus half a unit, and 2x and 2y are within half a unit of what is left
\* of the frame
C13_LetterboxRounded ==
    rect # NoRect =>
        /\ LessEq(Shl(Dist(MulDigits(rect.drawW, img.height, 0),
                           MulDigits(rect.drawH, img.width, 0)), Precision - 2),
                  MulDigits(rect.drawH, img.width, 0))
        /\ \/ LessEq(Dist(rect.drawW, Fixed(WIDTH)), Ulp)
           \/ LessEq(Dist(rect.drawH, Fixed(HEIGHT)), Ulp)
        /\ LessEq(rect.drawW, AddDigits(Fixed(WIDTH), Ulp, 0))
        /\ LessEq(rect.drawH, AddDigits(Fixed(HEIGHT), Ulp, 0))
        /\ (rect.x.neg => LessEq(Shl(rect.x.mag, 1), Ulp))
        /\ (rect.y.neg => LessEq(Shl(rect.y.mag, 1), Ulp))
        /\ LessEq(Plus(rect.drawW, rect.x), AddDigits(Fixed(WIDTH), Ulp, 0))
        /\ LessEq(Plus(rect.drawH, rect.y), AddDigits(Fixed(HEIGHT), Ulp, 0))
        /\ LessEq(Shl(Dist(Plus(Plus(rect.drawW, rect.x), rect.x),
                           Fixed(WIDTH)), 1), Ulp)
        /\ LessEq(Shl(Dist(Plus(Plus(rect.drawH, rect.y), rect.y),
                           Fixed(HEIGHT)), 1), Ulp)

\* C13 witness: a very wide image whose drawn width comes out one unit in
\* the last place above the frame's, so that x is negative
C13_Witness ==
    /\ img = [width |-> 29, height |-> 1]
    /\ rect.drawW = AddDigits(Fixed(WIDTH), Ulp, 0)
    /\ rect.x.neg
    /\ rect.x.mag # <<>>

\* C16: with VITE_GEMINI_API_KEY unset (or empty), a call of any of the four
\* functions rejects with getApiKey's error at once: no client is ever
\* constructed, no request issued and nothing returned
C16_ApiKeyRequired ==
    /\ (KeyMissing(apiKey) /\ apiPc # "idle" =>
           /\ apiPc = "done"
           /\ outcome = Rejected(API_KEY_ERROR)
           /\ ~client
           /\ requests = 0)
    /\ (client \/ requests > 0 \/ outcome.kind = "returned" =>
           apiKey.set /\ apiKey.value # "")

\* C16 witness: generateVideoMetadata called without the variable
C16_Witness ==
    /\ ~apiKey.set
    /\ calls = MaxCalls
    /\ fn = "generateVideoMetadata"
    /\ outcome = Rejected(API_KEY_ERROR)

\* C15: in the App at most one generateVideo invocation is in flight at any
\* time: handleGenerateVideo is not started again while status is
\* GENERATING_VIDEO
C15_OneRunInFlight == Cardinality(InFlight) <= 1

\* the second invocation stands where the first stood after the same steps
SameAsFirst == first.at > 0 => Obs = sched[first.at].obs

\* C14: a second invocation with the same slides, the same decoded durations
\* and the same schedule of clock ticks, callbacks and recorder events goes
\* through the same phases at the same instants as the first and ends with
\* the same result: nothing of the first invocation is left to influence it
C14_SameRunTwice == run = 2 /\ slides = first.slides => SameAsFirst

\* C14 witness: the second invocation has repeated all of a first
\* invocation that played a slide and resolved
C14_Witness ==
    /\ run = 2
    /\ slides = first.slides
    /\ first.at = Len(sched)
    /\ result = "resolved"
    /\ Events("end", 1) # {}
    /\ recStopAt > recStartAt

\* C20: a second invocation whose slides differ from the first's only in
\* the duration fields behaves as the first did, and holds each slide from
\* its start for the decoded duration of its audio
C20_DurationFieldIgnored ==
    run = 2 /\ slides # first.slides =>
        /\ SameAsFirst
        /\ \A k \in DOMAIN slides : \A p \in Events("start", k) :
              /\ (pc = "drawing" /\ i = k) =>
                     endTime = log[p].at + slides[k].audioBlob
              /\ \A e \in Events("end", k) :
                     log[e].at >= log[p].at + slides[k].audioBlob

\* C20 witness: a slide whose duration field says 0 was held for the length
\* of its audio, as in the first invocation where the field said that length
C20_Witness ==
    /\ run = 2
    /\ Len(slides) > 0
    /\ slides[1].duration = 0
    /\ slides[1].audioBlob = MaxDur
    /\ first.slides[1].duration = MaxDur
    /\ first.at = Len(sched)
    /\ Ev("end", 1, MaxDur) \in {log[p] : p \in DOMAIN log}

\* C21: every slide whose audio has started (its duration is positive) has
\* had its image drawn, by the first draw() call of its phase, hence before
\* the next slide's phase or the end of the recording; the image is only
\* ever drawn onto a frame cleared to black, and during a slide's phase the
\* frame shows that slide
C21_DrawnInPhase ==
    /\ \A k \in DOMAIN slides :
          (Events("start", k) # {} /\ slides[k].audioBlob > 0) => k \in drawn
    /\ (pc = "drawing" => canvas = [fill |-> "black", image |-> i])
    /\ (canvas.image # 0 => canvas.fill = "black" /\ canvas.image \in drawn)

\* C21 witness: the second slide's image is on the frame, the first slide's
\* was drawn in its own phase, which has ended
C21_Witness ==
    /\ Len(slides) = 2
    /\ Events("end", 1) # {}
    /\ 1 \in drawn
    /\ pc = "drawing"
    /\ canvas.image = 2

\* the scripts generateScripts has returned
Scripts == outcome.value

\* C28 as stated: generateScripts always returns exactly imageBlobs.length
\* entries
C28_OnePerImage ==
    (fn = "generateScripts" /\ outcome.kind = "returned") =>
        Len(Scripts) = nImages

\* C28: generateScripts returns at least imageBlobs.length entries: the
\* fallback string that many times when the response does not parse; else
\* the parsed scripts, padded with the mismatch placeholder up to exactly
\* that number when they are fewer, and returned as they are, not cut,
\* when they are more
C28_AtLeastOnePerImage ==
    (fn = "generateScripts" /\ outcome.kind = "returned") =>
        /\ Len(Scripts) >= nImages
        /\ \/ /\ Len(Scripts) = nImages
              /\ \A k \in DOMAIN Scripts : Scripts[k] = "fallback"
           \/ \E m \in 0..Len(Scripts) :
                 /\ \A k \in DOMAIN Scripts :
                       Scripts[k] = IF k <= m THEN "script" ELSE "mismatch"
                 /\ (m < Len(Scripts) => Len(Scripts) = nImages)

\* C28 witness: one script for two images, padded to two entries
C28_Witness ==
    /\ fn = "generateScripts"
    /\ nImages = 2
    /\ outcome = Returned(<<"script", "mismatch">>)

\* C24: in every slide list the editor comes to hold, through uploads,
\* inserts (also with an index that is stale when the file has been read),
\* deletes and moves, the slide at position i has pageIndex i
C24_PageIndex ==
    \A k \in DOMAIN appSlides : appSlides[k].pageIndex = k - 1

\* C24 witness: a slide inserted with an index that lay past the end of the
\* list by the time its file was read, after a delete
C24_Witness ==
    /\ note.op = "late insert"
    /\ appSlides[Len(appSlides)].id = note.id
    /\ Len(appSlides) = Len(note.before) + 1

\* a slide but for its pageIndex
Rest(slide) == [slide EXCEPT !.pageIndex = 0]

\* the move of slide id in the given direction took the list old to new:
\* nothing at all when the id is unknown or the slide is at that end of the
\* list, else the slide and its neighbour have changed places
MoveFrame(old, new, id, direction) ==
    LET at == FindIndex(old, id)
        to == IF direction = "up" THEN at - 1 ELSE at + 1
    IN  IF at = 0 \/ to = 0 \/ to > Len(old)
        THEN new = old
        ELSE /\ Len(new) = Len(old)
             /\ Rest(new[to]) = Rest(old[at])
             /\ Rest(new[at]) = Rest(old[to])
             /\ \A k \in DOMAIN old \ {at, to} : Rest(new[k]) = Rest(old[k])

\* the delete of slide id took the list old to new: that slide is gone, the
\* others are all there, once each, in their order
DeleteFrame(old, new, id) ==
    LET at == FindIndex(old, id)
    IN  IF at = 0
        THEN /\ Len(new) = Len(old)
             /\ \A k \in DOMAIN old : Rest(new[k]) = Rest(old[k])
        ELSE /\ Len(new) = Len(old) - 1
             /\ \A k \in DOMAIN new :
                   Rest(new[k]) = Rest(old[IF k < at THEN k ELSE k + 1])

\* C25: handleMoveSlide and handleDeleteSlide change only what they name
C25_MoveDeleteFrame ==
    /\ (note.op = "move" =>
           MoveFrame(note.before, appSlides, note.id, note.direction))
    /\ (note.op = "delete" => DeleteFrame(note.before, appSlides, note.id))
    /\ Cardinality(Ids(appSlides)) = Len(appSlides)

\* C25 witness: the first of three slides is deleted after the list was
\* reordered, so that no slide has the page number of its id
C25_Witness ==
    /\ note.op = "delete"
    /\ Len(note.before) = 3
    /\ note.before[1].id = note.id
    /\ \A k \in DOMAIN note.before : note.before[k].id # k
    /\ Len(appSlides) = 2

\* C22: a slide whose status is 'ready' has audio, and every slide that
\* handleGenerateVideo gives to generateVideo is 'ready' and has audio
C22_ReadyHasAudio ==
    /\ \A k \in DOMAIN appSlides :
           appSlides[k].status = "ready" => appSlides[k].audio # NoAudio
    /\ note.op = "video" =>
           \A k \in DOMAIN note.before :
               /\ note.before[k].status = "ready"
               /\ note.before[k].audio # NoAudio

\* generateVideo has just been called with a full list of voiced slides
C22_Witness ==
    /\ note.op = "video"
    /\ Len(note.before) = MaxSlides
    /\ status = "GENERATING_VIDEO"

\* C23: a slide whose status is 'ready' has the audio synthesized from its
\* current script
C23_ReadyAudioOfScript ==
    \A k \in DOMAIN appSlides :
        appSlides[k].status = "ready" =>
            appSlides[k].audio = <<appSlides[k].script>>

C27_CompletedHasVideo == status = "COMPLETED" => videoUrl # 0

====
